---------------------------- MODULE Spec2Model ----------------------------
(***************************************************************************)
(* Model of the search orchestration of async-paper-retriever              *)
(* (backend/main.py, class AsyncPaperSearch) and of the collaborators'     *)
(* adapters it calls (utils/rerank.py, utils/query_expansion.py,           *)
(* utils/s3_cache.py, utils/dynamodb_cache.py).                            *)
(*                                                                         *)
(* One search request runs from pc = "start" to pc = "done".  The request  *)
(* is cut into steps at the calls to the collaborators (LLM, embedder,     *)
(* search engine, reranker, cache store); each reply of a collaborator is  *)
(* an input drawn with \E from a bounded set of replies.                   *)
(*                                                                         *)
(* Conventions.  Optional[T] is a sequence of length <= 1: None is << >>   *)
(* and a value v is <<v>>.  A text is a sequence of one-character strings. *)
(* Scores are in tenths: the score 0.1 of the code is 1 here.              *)
(***************************************************************************)
EXTENDS Integers, Sequences, FiniteSets, TLC

VARIABLES
    self,              \* the orchestrator's handles: opensearch_client, embedder, reranker, cache
    ENABLE_RERANK,     \* settings.ENABLE_RERANK
    api_key,           \* openai.api_key is a non-empty string
    request,           \* the SearchRequest of the invocation
    pc,                \* where the invocation of search() stands
    local,             \* the local variables of the invocation (query, query_terms, results, ...)
    search_response,   \* Optional SearchResponse: the response built, then returned
    outcome,           \* "pending", "returned" or "raised" (an exception left search())
    exc,               \* an exception reached the except clause of search()
    s3_objects,        \* the S3 bucket: the objects stored
    ddb_items,         \* the DynamoDB table: the items stored
    log,               \* history of the invocation: counts of what the collaborators did
    probe              \* the call under check when one function is checked on its own

vars == <<self, ENABLE_RERANK, api_key, request, pc, local, search_response, outcome, exc,
          s3_objects, ddb_items, log, probe>>

\* what no step of search() writes
cfgvars == <<self, ENABLE_RERANK, api_key, request, probe>>

-----------------------------------------------------------------------------
(* Bounds of the model *)

\* longest hit list an engine reply carries
MaxHits == 2
\* document ids are 1..MaxDoc
MaxDoc == 2
\* engine scores are 0..MaxScore (tenths)
MaxScore == 2
\* rerank scores are 0..MaxRerankScore
MaxRerankScore == 1
\* longest result list _rerank_results is checked on, on its own
MaxResults == 3
\* request.pageSize is 1..MaxPageSize
MaxPageSize == 2
\* the builders are checked on pages 1..MaxPage
MaxPage == 3
\* longest term list the builders are checked on
MaxTerms == 3

(* Program constants *)

\* _keyword_search / _supplement_with_vector_search: the 10000 of "len(results) < 10000"
SUPPLEMENT_LIMIT == 10000
\* _supplement_with_vector_search: hit['_score'] >= 0.1, in tenths
SCORE_THRESHOLD == 1

-----------------------------------------------------------------------------
(* Optional values *)

None == << >>
Some(v) == <<v>>
IsNone(o) == o = << >>
Get(o) == o[1]

Range(s) == {s[i] : i \in DOMAIN s}

-----------------------------------------------------------------------------
(* urllib.parse.unquote on the characters the model uses *)

HexValue(c) == CASE c = "6" -> 6 [] c = "7" -> 7 [] OTHER -> -1
IsHex(c) == HexValue(c) >= 0
Chr(n) == CASE n = 102 -> "f" [] n = 103 -> "g" [] n = 118 -> "v" [] n = 119 -> "w"

RECURSIVE unquote(_)
unquote(s) ==
    IF s = << >> THEN << >>
    ELSE IF Head(s) = "%" /\ Len(s) >= 3 /\ IsHex(s[2]) /\ IsHex(s[3])
         THEN <<Chr(16 * HexValue(s[2]) + HexValue(s[3]))>> \o unquote(SubSeq(s, 4, Len(s)))
         ELSE <<Head(s)>> \o unquote(Tail(s))

\* search(): the decoding step with its own try/except: unquote(None) raises
\* TypeError and the query stays request.query
DecodeQuery(q) == IF IsNone(q) THEN q ELSE Some(unquote(Get(q)))

\* QueryIsEmpty with the test "if query is None"
QueryIsEmpty_noneOnly(q) == IsNone(q)

\* "if not query": None and the empty string are falsy
QueryIsEmpty(q) == IsNone(q) \/ Get(q) = << >>

-----------------------------------------------------------------------------
(* Stable sort by descending score: list.sort(key=lambda x: x.score, reverse=True) *)

\* an insertion that puts x in front of the entries of equal score
InsertDesc_beforeTies(s, x) ==
    LET n == Cardinality({i \in DOMAIN s : s[i].score > x.score})
    IN  SubSeq(s, 1, n) \o <<x>> \o SubSeq(s, n + 1, Len(s))

\* s with x put after every entry whose score is >= x.score (s is sorted)
InsertDesc(s, x) ==
    LET n == Cardinality({i \in DOMAIN s : s[i].score >= x.score})
    IN  SubSeq(s, 1, n) \o <<x>> \o SubSeq(s, n + 1, Len(s))

RECURSIVE SortDesc(_)
SortDesc(s) ==
    IF s = << >> THEN << >>
    ELSE InsertDesc(SortDesc(SubSeq(s, 1, Len(s) - 1)), s[Len(s)])

IsDescending(s) == \A i \in 1..(Len(s) - 1) : s[i].score >= s[i + 1].score

-----------------------------------------------------------------------------
(* The relevance gate: AsyncPaperSearch.evaluate_relevance *)

\* What the chat completion call can do.  kind:
\*   "exception"   the call raised, or the reply has no choices / no content
\*   "no_json"     the content holds neither a <json> block nor a ```json block (or an empty one)
\*   "bad_json"    the block does not decode (json.JSONDecodeError)
\*   "not_object"  the block decodes to a JSON value that is no object (.get raises)
\*   "object"      the block decodes to an object; rel is its is_relevant member
\*                 ("absent", or the JSON value true / false / null / 0 / a non-empty
\*                 string), reason tells whether it has a reason member
LLMObjectReplies ==
    [kind : {"object"}, rel : {"absent", "true", "false", "null", "zero", "text"},
     reason : {"absent", "given"}]

LLMFailureReplies ==
    [kind : {"exception", "no_json", "bad_json", "not_object"}, rel : {"absent"},
     reason : {"absent"}]

LLMReplies == LLMObjectReplies \cup LLMFailureReplies

\* the replies a search is run against: one for each verdict of the gate (kept
\* after a failed call, kept without a JSON block, judged relevant, judged
\* irrelevant, a null verdict)
SearchLLMReplies ==
    {r \in LLMReplies :
        \/ r.kind \in {"exception", "no_json"}
        \/ r.kind = "object" /\ r.rel \in {"true", "false", "null"} /\ r.reason = "given"}

\* the reply of a call that is not made
NoReply == [kind |-> "none", rel |-> "absent", reason |-> "absent"]

\* evaluate_relevance without its two early returns
evaluate_relevance_unguarded(enable_llm, key, reply) ==
    [is_relevant |-> IF reply.rel = "absent" THEN "true" ELSE reply.rel,
     reason |-> IF reply.reason = "absent" THEN "reason_parse_failed" ELSE "llm_reason",
     called |-> TRUE]

\* (is_relevant, reason, whether the LLM was called).  is_relevant is the Python
\* value returned: "true" / "false" for the booleans, else the JSON value as decoded.
evaluate_relevance(enable_llm, key, reply) ==
    IF ~enable_llm THEN [is_relevant |-> "true", reason |-> "llm_not_enabled", called |-> FALSE]
    ELSE IF ~key THEN [is_relevant |-> "true", reason |-> "no_api_key", called |-> FALSE]
    ELSE CASE reply.kind = "exception" ->
                [is_relevant |-> "true", reason |-> "evaluation_error", called |-> TRUE]
           [] reply.kind = "no_json" ->
                [is_relevant |-> "true", reason |-> "json_content_not_found", called |-> TRUE]
           [] reply.kind = "bad_json" ->
                [is_relevant |-> "true", reason |-> "json_decode_failed", called |-> TRUE]
           [] reply.kind = "not_object" ->
                [is_relevant |-> "true", reason |-> "evaluation_error", called |-> TRUE]
           [] OTHER ->
                [is_relevant |-> IF reply.rel = "absent" THEN "true" ELSE reply.rel,
                 reason |-> IF reply.reason = "absent" THEN "reason_parse_failed"
                            ELSE "llm_reason",
                 called |-> TRUE]

\* a caller that keeps the hit whatever the verdict
Truthy_always(v) == TRUE

\* the callers' "if is_relevant:": Python truthiness of the returned value
Truthy(v) == v \in {"true", "text"}

\* whether evaluate_relevance reaches the LLM call
NeedsLLM(enable_llm, key) == enable_llm /\ key

-----------------------------------------------------------------------------
(* The reranker: BGEReranker.rerank and AsyncPaperSearch._rerank_results *)

\* What the rerank endpoint can do.  kind:
\*   "exception"  invoke_endpoint or the decoding of the body raised
\*   "not_dict"   the body is no dict, or a dict without 'data'
\*   "bad_item"   an item of data has no 'score', or one float() cannot convert
\*   "data"       data holds one score per item, scores in input order
RerankScores == 0..MaxRerankScore

RECURSIVE SeqsUpTo(_, _)
SeqsUpTo(S, n) ==
    IF n = 0 THEN {<< >>}
    ELSE LET shorter == SeqsUpTo(S, n - 1)
         IN  shorter \cup {Append(s, x) : s \in {t \in shorter : Len(t) = n - 1}, x \in S}

RerankFailureReplies ==
    [kind : {"exception", "not_dict", "bad_item"}, scores : {<< >>}]

\* the replies offered for a list of n passages: up to one score too many
RerankReplies(n) ==
    RerankFailureReplies \cup [kind : {"data"}, scores : SeqsUpTo(RerankScores, n + 1)]

\* zip(passages, scores)
Zip(passages, scores) ==
    [i \in 1..(IF Len(passages) <= Len(scores) THEN Len(passages) ELSE Len(scores)) |->
        [text |-> passages[i], score |-> scores[i]]]

\* BGEReranker.rerank(query, passages): the list of {text, score} it returns,
\* sorted by descending score
BGEReranker_rerank(passages, reply) ==
    IF passages = << >> THEN << >>
    ELSE IF reply.kind = "data" THEN SortDesc(Zip(passages, reply.scores))
    ELSE << >>

\* "for i, rerank_result in enumerate(rerank_results): if i < len(results):
\*      results[i].score = rerank_result['score']"
OverwriteScores(res, rerank_results) ==
    [i \in DOMAIN res |->
        IF i <= Len(rerank_results) THEN [res[i] EXCEPT !.score = rerank_results[i].score]
        ELSE res[i]]

\* the title of a result: the model's documents are titled by their id
Titles(res) == [i \in DOMAIN res |-> res[i].id]

\* _rerank_results that rebuilds the list from the rerank results
rerank_results_truncating(res, reply) ==
    LET rr == BGEReranker_rerank(Titles(res), reply)
    IN  IF rr # << >>
        THEN SortDesc(SubSeq(OverwriteScores(res, rr), 1,
                             IF Len(rr) < Len(res) THEN Len(rr) ELSE Len(res)))
        ELSE res

\* _rerank_results(query, results) given the endpoint's reply
rerank_results(res, reply) ==
    LET rr == BGEReranker_rerank(Titles(res), reply)
    IN  IF rr # << >> THEN SortDesc(OverwriteScores(res, rr)) ELSE res

-----------------------------------------------------------------------------
(* Query expansion: utils/query_expansion.py *)

\* str.strip() on a text
RECURSIVE LStrip(_)
LStrip(s) == IF s # << >> /\ Head(s) = " " THEN LStrip(Tail(s)) ELSE s

RECURSIVE RStrip(_)
RStrip(s) == IF s # << >> /\ s[Len(s)] = " " THEN RStrip(SubSeq(s, 1, Len(s) - 1)) ELSE s

Strip(s) == RStrip(LStrip(s))

\* What the chat completion call of rewrite_query can do.  kind:
\*   "error"           the call raised
\*   "no_json"         the content has no <json> tag and no {...} block
\*   "bare_invalid"    no <json> tag, a {...} block that does not decode
\*   "bare"            no <json> tag, a {...} block that decodes: the block gets wrapped
\*   "tagged"          <json>...</json> around JSON that decodes to an object
\*   "tagged_invalid"  <json>...</json> around text that does not decode
\*   "unterminated"    <json> without </json>
\* data is the decoded object, as the texts extract_terms_from_rewrite visits in
\* order: qid, entity, then the zh / en / abbr of each additional_info entry
\* (<< >> for a member that is missing, empty or no string).
ExpansionData ==
    { << >>,
      << <<"g", "l">>, <<"G", "L", "C">> >>,
      << <<"g", "l">>, <<"g", "l">>, << >>, <<"G", "L", "C">>, <<"G", "L", "C">> >> }

ExpansionReplies ==
    [kind : {"error", "no_json", "bare_invalid", "unterminated", "tagged_invalid"},
     data : {<< >>}]
    \cup [kind : {"bare", "tagged"}, data : ExpansionData]

\* the replies a search is run against: a failed call and a usable expansion
SearchExpansionReplies ==
    {r \in ExpansionReplies :
        \/ r.kind = "error"
        \/ r.kind = "tagged" /\ Len(r.data) = 2}

\* the text of an LLM reply, kept as one opaque character
ContentText == <<"<json>...">>

\* rewrite_query(query): the string it returns, either the query itself
\* (llm = FALSE) or the LLM's content
rewrite_query(q, key, reply) ==
    IF q = << >> \/ Len(Strip(q)) < 2 THEN [llm |-> FALSE, text |-> q, reply |-> reply]
    ELSE IF ~key THEN [llm |-> FALSE, text |-> q, reply |-> reply]
    ELSE IF reply.kind \in {"error", "no_json", "bare_invalid"}
         THEN [llm |-> FALSE, text |-> q, reply |-> reply]
         ELSE [llm |-> TRUE, text |-> ContentText, reply |-> reply]

\* "if term and isinstance(term, str) and term not in search_terms: append"
AddTerm(terms, t) == IF t # << >> /\ t \notin Range(terms) THEN Append(terms, t) ELSE terms

RECURSIVE CollectTerms(_, _)
CollectTerms(terms, cands) ==
    IF cands = << >> THEN terms ELSE CollectTerms(AddTerm(terms, Head(cands)), Tail(cands))

\* extract_terms_from_rewrite(rewritten_query)
extract_terms_from_rewrite(rw) ==
    IF ~rw.llm THEN <<Strip(rw.text)>>
    ELSE IF rw.reply.kind \in {"unterminated", "tagged_invalid"} THEN <<Strip(rw.text)>>
    ELSE LET search_terms == CollectTerms(<< >>, rw.reply.data)
         IN  IF search_terms # << >> THEN search_terms ELSE <<Strip(rw.text)>>

\* expand_query that returns no term when the rewrite did not reach the LLM's JSON
expand_query_termsOnly(q, key, reply) ==
    LET rw == rewrite_query(q, key, reply)
    IN  IF rw.llm THEN extract_terms_from_rewrite(rw) ELSE << >>

expand_query(q, key, reply) == extract_terms_from_rewrite(rewrite_query(q, key, reply))

\* whether rewrite_query reaches the LLM call
RewriteNeedsLLM(q, key) == ~(q = << >> \/ Len(Strip(q)) < 2) /\ key

-----------------------------------------------------------------------------
(* The query builders: build_keyword_search_query, build_vector_search_query, *)
(* build_hybrid_search_query, and the query _supplement_with_vector_search    *)
(* builds in line                                                             *)

\* {"match_phrase": {field: {"query": keyword, "boost": boost}}}
BoostedPhrase(field, keyword, boost) ==
    [match_phrase |-> [field |-> field, query |-> keyword, boost |-> boost]]

\* {"match_phrase": {field: keyword}}
Phrase(field, keyword) == [match_phrase |-> [field |-> field, query |-> keyword]]

\* "for keyword in query_terms: should_queries.extend([title, keywords, abstract])"
RECURSIVE ShouldQueries(_)
ShouldQueries(query_terms) ==
    IF query_terms = << >> THEN << >>
    ELSE << BoostedPhrase("title", Head(query_terms), 5),
            BoostedPhrase("keywords", Head(query_terms), 10),
            BoostedPhrase("abstract", Head(query_terms), 2) >>
         \o ShouldQueries(Tail(query_terms))

\* "for keyword in query_terms: must_not_queries.extend([title, keywords, abstract])"
RECURSIVE MustNotQueries(_)
MustNotQueries(query_terms) ==
    IF query_terms = << >> THEN << >>
    ELSE << Phrase("title", Head(query_terms)),
            Phrase("keywords", Head(query_terms)),
            Phrase("abstract", Head(query_terms)) >>
         \o MustNotQueries(Tail(query_terms))

SourceFields == <<"id", "title", "abstract", "keywords">>
HighlightFields == <<"title", "abstract", "keywords">>

\* the keyword builder with "from_value = page * page_size"
build_keyword_search_query_nextPage(query_terms, page, page_size) ==
    [from |-> page * page_size,
     size |-> page_size,
     query |-> [bool |-> [should |-> ShouldQueries(query_terms), minimum_should_match |-> 1]],
     source |-> SourceFields,
     highlight |-> HighlightFields]

build_keyword_search_query(query_terms, page, page_size) ==
    [from |-> (page - 1) * page_size,
     size |-> page_size,
     query |-> [bool |-> [should |-> ShouldQueries(query_terms), minimum_should_match |-> 1]],
     source |-> SourceFields,
     highlight |-> HighlightFields]

\* the vector builder with k = 10, whatever the page size
build_vector_search_query_fixedK(query_embedding, query_terms, page, page_size) ==
    [from |-> (page - 1) * page_size,
     size |-> page_size,
     query |-> [bool |-> [must |-> [knn |-> [vector |-> query_embedding, k |-> 10]],
                          must_not |-> MustNotQueries(query_terms)]],
     source |-> SourceFields]

build_vector_search_query(query_embedding, query_terms, page, page_size) ==
    [from |-> (page - 1) * page_size,
     size |-> page_size,
     query |-> [bool |-> [must |-> [knn |-> [vector |-> query_embedding, k |-> page_size]],
                          must_not |-> MustNotQueries(query_terms)]],
     source |-> SourceFields]

\* the hybrid builder asking for as many hits as the supplementation does
build_hybrid_search_query_unbounded(query_terms, query_embedding, page, page_size) ==
    [from |-> (page - 1) * page_size,
     size |-> SUPPLEMENT_LIMIT,
     query |-> [hybrid |-> << [bool |-> [should |-> ShouldQueries(query_terms),
                                         minimum_should_match |-> 1]],
                              [knn |-> [vector |-> query_embedding, k |-> page_size]] >>],
     source |-> SourceFields,
     highlight |-> HighlightFields]

build_hybrid_search_query(query_terms, query_embedding, page, page_size) ==
    [from |-> (page - 1) * page_size,
     size |-> page_size,
     query |-> [hybrid |-> << [bool |-> [should |-> ShouldQueries(query_terms),
                                         minimum_should_match |-> 1]],
                              [knn |-> [vector |-> query_embedding, k |-> page_size]] >>],
     source |-> SourceFields,
     highlight |-> HighlightFields]

\* the test of the supplementation with "len(results) <= 10000"
ShouldSupplement_atMost(count, embedder) == count <= SUPPLEMENT_LIMIT /\ embedder

\* "if len(results) < 10000 and self.embedder:" of _keyword_search
ShouldSupplement(count, embedder) == count < SUPPLEMENT_LIMIT /\ embedder

\* vector_search_query of _supplement_with_vector_search: no "from", size and k
\* are remaining_size = 10000 - len(results)
supplement_search_query(query_embedding, query_terms, results, seen_ids) ==
    LET remaining_size == SUPPLEMENT_LIMIT - Len(results)
    IN  [size |-> remaining_size,
         query |-> [bool |-> [must |-> [knn |-> [vector |-> query_embedding,
                                                 k |-> remaining_size]],
                              must_not |-> <<[terms |-> [id |-> seen_ids]]>>
                                           \o MustNotQueries(query_terms)]],
         source |-> SourceFields]

\* self.embedder.get_embeddings(text)[0].tolist(): the vector, kept opaque
Embedding(text) == [embedding_of |-> text]

\* " ".join([query] + query_terms)
RECURSIVE JoinSpace(_)
JoinSpace(texts) ==
    IF texts = << >> THEN << >>
    ELSE IF Len(texts) = 1 THEN texts[1]
    ELSE texts[1] \o <<" ">> \o JoinSpace(Tail(texts))

-----------------------------------------------------------------------------
(* The matched keywords of a keyword or hybrid hit: find_matched_keywords,     *)
(* extract_matched_keywords                                                    *)

\* str.lower() on the letters the model uses
LowerChar(c) == CASE c = "G" -> "g" [] c = "L" -> "l" [] c = "C" -> "c" [] OTHER -> c
Lower(s) == [i \in DOMAIN s |-> LowerChar(s[i])]

\* s[i:].startswith(p), i counted from 1
StartsAt(p, s, i) == i + Len(p) - 1 <= Len(s) /\ SubSeq(s, i, i + Len(p) - 1) = p

\* "p in s"
Contains(p, s) == \E i \in 1..(Len(s) + 1) : StartsAt(p, s, i)

\* the least position >= i where p starts in s, 0 when there is none
FindFrom(p, s, i) ==
    LET at == {k \in i..(Len(s) + 1) : StartsAt(p, s, k)}
    IN  IF at = {} THEN 0 ELSE CHOOSE k \in at : \A j \in at : k <= j

EmOpen == <<"<", "e", "m", ">">>
EmClose == <<"<", "/", "e", "m", ">">>

\* re.findall(r'<em>(.*?)</em>', text): the texts between each <em> and the
\* first </em> after it, scanning on after that </em>
RECURSIVE FindAllEm(_, _)
FindAllEm(text, i) ==
    LET open == FindFrom(EmOpen, text, i)
        close == IF open = 0 THEN 0 ELSE FindFrom(EmClose, text, open + Len(EmOpen))
    IN  IF open = 0 \/ close = 0 THEN << >>
        ELSE <<SubSeq(text, open + Len(EmOpen), close - 1)>>
             \o FindAllEm(text, close + Len(EmClose))

\* extract_matched_keywords(highlight) before "list(...)": set(matched), matched
\* collected over the highlight texts of all fields
RECURSIVE extract_matched_keywords(_)
extract_matched_keywords(highlights) ==
    IF highlights = << >> THEN {}
    ELSE Range(FindAllEm(Head(highlights), 1)) \cup extract_matched_keywords(Tail(highlights))

\* list(set(matched)): the set's elements in an order the interpreter chooses
ListsOf(S) == {q \in SeqsUpTo(S, Cardinality(S)) : Len(q) = Cardinality(S) /\ Range(q) = S}

\* find_matched_keywords(keywords, hit_source): the terms found, whatever the
\* case, in the title, in the joined keywords or in the abstract
RECURSIVE find_matched_keywords(_, _)
find_matched_keywords(keywords, hit_source) ==
    IF keywords = << >> THEN << >>
    ELSE LET keyword == Head(keywords)
             found == \/ Contains(Lower(keyword), Lower(hit_source.title))
                      \/ Contains(Lower(keyword), Lower(JoinSpace(hit_source.keywords)))
                      \/ Contains(Lower(keyword), Lower(hit_source.abstract))
         IN  (IF found THEN <<keyword>> ELSE << >>)
             \o find_matched_keywords(Tail(keywords), hit_source)

\* matched_keywords=matched_keywords + highlight_matched
MatchedKeywords(matched_keywords, highlight_matched) == matched_keywords \o highlight_matched

-----------------------------------------------------------------------------
(* The search engine's replies *)

Hits == [id : 1..MaxDoc, score : 0..MaxScore]

\* The engine sorts its hits by descending _score (no query of the code asks for
\* another order); a document id may occur more than once ('id' is a field of
\* the documents, not the engine's key).
HitLists == {h \in SeqsUpTo(Hits, MaxHits) : IsDescending(h)}

\* kind: "exception" (the call raised), "malformed" (a hit lacks a field the code
\* reads, so building the result raises), "hits"; total is hits.total.value
EngineReplies ==
    [kind : {"exception", "malformed"}, hits : {<< >>}, total : {0}]
    \cup {[kind |-> "hits", hits |-> h, total |-> Len(h) + extra] :
            h \in HitLists, extra \in {0, 1}}

\* SearchResult(...) as the keyword and hybrid branches build it
KeywordResult(hit, src) ==
    [id |-> hit.id, score |-> hit.score, source |-> src, relevance_reason |-> None]

\* SearchResult(...) as the vector branch and the supplementation build it
VectorResult(hit, reason) ==
    [id |-> hit.id, score |-> hit.score, source |-> "vector", relevance_reason |-> Some(reason)]

ResultsOf(h, src) == [i \in DOMAIN h |-> KeywordResult(h[i], src)]

\* an engine that returns hits without regard to body.size
EngineAnswers_anySize(body) == EngineReplies

\* self.opensearch_client.search(index, body): what the engine can answer to the
\* query body; it returns at most body.size hits
EngineAnswers(body) == {r \in EngineReplies : r.kind = "hits" => Len(r.hits) <= body.size}

-----------------------------------------------------------------------------
(* The responses *)

SearchResponse(total, res, searchType, terms) ==
    [total |-> total, results |-> res, searchType |-> searchType,
     rewrittenTerms |-> terms, search_id |-> None]

\* the response of the empty-query return and of the except clause of search()
EmptyResponse(req) == SearchResponse(0, << >>, req.searchType, None)

-----------------------------------------------------------------------------
(* The cache back ends: S3Cache and DynamoDBCache *)

\* what the stores can do at one call: whether the S3 call and the DynamoDB call
\* succeed
StoreReplies == [s3_ok : BOOLEAN, ddb_ok : BOOLEAN]

\* the ids that are or were keys of stored entries (probe.removed: the ids whose
\* entries a delete took away)
UsedIds ==
    {o.search_id : o \in s3_objects} \cup {i.search_id : i \in ddb_items}
        \cup (IF probe.fn \in {"cache", "backends"} THEN probe.removed ELSE {})

\* generate_search_id(): a uuid4, an id no entry has or had
NewSearchId == Cardinality(UsedIds) + 1

\* "result.relevance_reason or ''"
OrEmptyString(opt) == IF IsNone(opt) THEN "" ELSE Get(opt)

\* "response.rewrittenTerms or []"
OrEmptyList(opt) == IF IsNone(opt) THEN << >> ELSE Get(opt)

\* a serialisation that loses the scores
serialize_search_results_scoreless(results) ==
    [i \in DOMAIN results |->
        [id |-> results[i].id, score |-> 0, source |-> results[i].source,
         relevance_reason |-> OrEmptyString(results[i].relevance_reason)]]

\* S3Cache._serialize_search_results: one new dict per result, score as float
serialize_search_results(results) ==
    [i \in DOMAIN results |->
        [id |-> results[i].id, score |-> results[i].score, source |-> results[i].source,
         relevance_reason |-> OrEmptyString(results[i].relevance_reason)]]

\* Decimal(str(score))
Decimal(v) == [decimal |-> v]

\* DynamoDBCache._serialize_search_results: one new dict per result, score as Decimal
serialize_search_results_decimal(results) ==
    [i \in DOMAIN results |->
        [id |-> results[i].id, score |-> Decimal(results[i].score),
         source |-> results[i].source,
         relevance_reason |-> OrEmptyString(results[i].relevance_reason)]]

\* the object S3Cache uploads
S3Data(id, query, search_type, resp, enable_llm) ==
    [search_id |-> id, query |-> query, search_type |-> search_type,
     enable_llm |-> enable_llm, total_results |-> resp.total,
     results |-> serialize_search_results(resp.results),
     rewritten_terms |-> OrEmptyList(resp.rewrittenTerms)]

\* the item S3Cache puts: metadata and the S3 key
S3Item(id, query, search_type, resp, enable_llm) ==
    [search_id |-> id, query |-> query, search_type |-> search_type,
     enable_llm |-> enable_llm, total_results |-> resp.total,
     results_count |-> Len(resp.results), s3_key |-> id,
     rewritten_terms |-> OrEmptyList(resp.rewrittenTerms)]

\* the item DynamoDBCache puts
DynamoDBItem(id, query, search_type, resp, enable_llm) ==
    [search_id |-> id, query |-> query, search_type |-> search_type,
     enable_llm |-> enable_llm, total_results |-> resp.total,
     results |-> serialize_search_results_decimal(resp.results),
     rewritten_terms |-> OrEmptyList(resp.rewrittenTerms)]

\* save_search_result of a back end on a bucket (objects) and a table (items),
\* with id the uuid4 it generates: the id it returns (Optional) and the stores
\* after it.  S3Cache uploads the object, then puts the item; an
\* exception of put_item is caught after the upload was done.
save_search_result_on(objects, items, id, kind, query, search_type, resp, enable_llm, reply) ==
    IF kind = "s3"
    THEN IF ~reply.s3_ok
         THEN [search_id |-> None, s3 |-> objects, ddb |-> items]
         ELSE IF ~reply.ddb_ok
         THEN [search_id |-> None,
               s3 |-> objects \cup {S3Data(id, query, search_type, resp, enable_llm)},
               ddb |-> items]
         ELSE [search_id |-> Some(id),
               s3 |-> objects \cup {S3Data(id, query, search_type, resp, enable_llm)},
               ddb |-> items \cup {S3Item(id, query, search_type, resp, enable_llm)}]
    ELSE IF ~reply.ddb_ok
         THEN [search_id |-> None, s3 |-> objects, ddb |-> items]
         ELSE [search_id |-> Some(id), s3 |-> objects,
               ddb |-> items \cup {DynamoDBItem(id, query, search_type, resp, enable_llm)}]

\* the save on the bucket and the table of the service
save_search_result(kind, query, search_type, resp, enable_llm, reply) ==
    save_search_result_on(s3_objects, ddb_items, NewSearchId, kind, query, search_type, resp,
                          enable_llm, reply)

\* the entries of a store under an id
EntriesOf(store, search_id) == {e \in store : e.search_id = search_id}

\* "result = {**metadata, 'results': full_data.get('results', [])}"
MergeResults(metadata, full_data) ==
    [search_id |-> metadata.search_id, query |-> metadata.query,
     search_type |-> metadata.search_type, enable_llm |-> metadata.enable_llm,
     total_results |-> metadata.total_results, results_count |-> metadata.results_count,
     s3_key |-> metadata.s3_key, rewritten_terms |-> metadata.rewritten_terms,
     results |-> full_data.results]

\* get_search_result of a back end on a bucket and a table (Optional): S3Cache reads the
\* item, then downloads the object the item's s3_key names; DynamoDBCache returns
\* the item.  Any failure gives None.
get_search_result_on(objects, items, kind, search_id, reply) ==
    IF ~reply.ddb_ok \/ EntriesOf(items, search_id) = {} THEN None
    ELSE LET metadata == CHOOSE i \in EntriesOf(items, search_id) : TRUE
         IN  IF kind # "s3" THEN Some(metadata)
             ELSE IF ~reply.s3_ok \/ EntriesOf(objects, metadata.s3_key) = {} THEN None
             ELSE Some(MergeResults(metadata,
                                    CHOOSE o \in EntriesOf(objects, metadata.s3_key) : TRUE))

\* the read on the bucket and the table of the service
get_search_result(kind, search_id, reply) ==
    get_search_result_on(s3_objects, ddb_items, kind, search_id, reply)

\* S3Cache.get_search_metadata (Optional): the item, without the object
get_search_metadata(search_id, reply) ==
    IF ~reply.ddb_ok \/ EntriesOf(ddb_items, search_id) = {} THEN None
    ELSE Some(CHOOSE i \in EntriesOf(ddb_items, search_id) : TRUE)

\* what the stores can do at one delete: get_item (S3Cache only), delete_object
\* ("client_error": a ClientError, "error": another exception), delete_item
DeleteReplies ==
    [get_ok : BOOLEAN, s3 : {"ok", "client_error", "error"}, ddb_ok : BOOLEAN]

\* delete_search_result of a back end on a bucket and a table: what it returns
\* and the stores after it.  S3Cache returns False when it finds no item; a ClientError of
\* delete_object is only logged.  DynamoDBCache deletes the key without looking.
delete_search_result_on(objects, items, kind, search_id, reply) ==
    LET unchanged(ret) == [ret |-> ret, s3 |-> objects, ddb |-> items]
    IN  IF kind = "s3"
        THEN IF ~reply.get_ok \/ EntriesOf(items, search_id) = {} THEN unchanged(FALSE)
             ELSE LET metadata == CHOOSE i \in EntriesOf(items, search_id) : TRUE
                      s3 == IF reply.s3 = "ok"
                            THEN objects \ EntriesOf(objects, metadata.s3_key)
                            ELSE objects
                  IN  IF reply.s3 = "error" THEN unchanged(FALSE)
                      ELSE IF ~reply.ddb_ok THEN [ret |-> FALSE, s3 |-> s3, ddb |-> items]
                      ELSE [ret |-> TRUE, s3 |-> s3,
                            ddb |-> items \ EntriesOf(items, search_id)]
        ELSE IF ~reply.ddb_ok THEN unchanged(FALSE)
             ELSE [ret |-> TRUE, s3 |-> objects,
                   ddb |-> items \ EntriesOf(items, search_id)]

\* the delete on the bucket and the table of the service
delete_search_result(kind, search_id, reply) ==
    delete_search_result_on(s3_objects, ddb_items, kind, search_id, reply)

\* a cache write that also sets total to the number of results it stored
WithSearchId_recount(resp, id) ==
    IF id # None THEN [resp EXCEPT !.search_id = id, !.total = Len(resp.results)] ELSE resp

\* "if search_id: search_response.search_id = search_id"
WithSearchId(resp, id) == IF id # None THEN [resp EXCEPT !.search_id = id] ELSE resp

-----------------------------------------------------------------------------
(* The inputs *)

\* request.query as received: None, the empty string, "%67l" (decodes to "gl")
RawQueries == {None, Some(<< >>), Some(<<"%", "6", "7", "l">>)}

\* "other" stands for any searchType that is none of the three
SearchTypes == {"keyword", "vector", "hybrid", "other"}

\* the searches are run for the first page
RequestPages == {1}

Requests ==
    [query : RawQueries, page : RequestPages, pageSize : 1..MaxPageSize,
     searchType : SearchTypes, enableLlm : BOOLEAN]

CacheKinds == {"none", "s3", "dynamodb"}

InitLocal ==
    [query |-> None, query_terms |-> << >>, hits |-> << >>, seen_ids |-> {},
     results |-> << >>, vector_results |-> << >>, engine_total |-> 0]

\* keyword_count: how many hits the keyword query returned (Optional); verdicts: for
\* each vector hit visited, what evaluate_relevance returned for it ("skipped": the
\* hit was not evaluated); hybrid_total: hits.total.value of the reply to the hybrid
\* query (Optional)
InitLog ==
    [llm_calls |-> 0, evaluated |-> 0, dropped |-> 0, save_calls |-> 0, save_returned |-> None,
     keyword_count |-> None, verdicts |-> << >>, hybrid_total |-> None]

NoProbe == [fn |-> "none"]

\* AsyncPaperSearch.__init__: each handle is set or stays None; _init_reranker
\* builds a reranker only when settings.ENABLE_RERANK is on
Init ==
    /\ ENABLE_RERANK \in BOOLEAN
    /\ api_key \in BOOLEAN
    /\ self \in [opensearch_client : BOOLEAN, embedder : BOOLEAN, reranker : BOOLEAN,
                 cache : CacheKinds]
    /\ self.reranker => ENABLE_RERANK
    /\ request \in Requests
    /\ pc = "start"
    /\ local = InitLocal
    /\ search_response = None
    /\ outcome = "pending"
    /\ exc = FALSE
    /\ s3_objects = {}
    /\ ddb_items = {}
    /\ log = InitLog
    /\ probe = NoProbe

-----------------------------------------------------------------------------
(* search(): the ways a step ends *)

\* one more step of the invocation
Goto(p, l) ==
    /\ pc' = p
    /\ local' = l
    /\ UNCHANGED <<search_response, outcome, exc, s3_objects, ddb_items>>

\* a return that hands every response, also the empty one of the except clause,
\* to the cache first
Return_saving(resp, e) ==
    /\ pc' = IF self.cache = "none" THEN "done" ELSE "save"
    /\ local' = InitLocal
    /\ search_response' = Some(resp)
    /\ outcome' = IF self.cache = "none" THEN "returned" ELSE outcome
    /\ exc' = e
    /\ UNCHANGED <<s3_objects, ddb_items>>

\* search() returns resp
Return(resp, e) ==
    /\ pc' = "done"
    /\ local' = InitLocal
    /\ search_response' = Some(resp)
    /\ outcome' = "returned"
    /\ exc' = e
    /\ UNCHANGED <<s3_objects, ddb_items>>

\* an except clause that raises again
SearchExcept_reraise ==
    /\ pc' = "done"
    /\ local' = InitLocal
    /\ search_response' = None
    /\ outcome' = "raised"
    /\ exc' = TRUE
    /\ UNCHANGED <<s3_objects, ddb_items>>

\* an except clause that returns what the branch had built
SearchExcept_partial ==
    Return(SearchResponse(Len(local.results), local.results, request.searchType,
                          IF local.query_terms = << >> THEN None ELSE Some(local.query_terms)),
           TRUE)

\* the except clause of search(): an exception raised anywhere in the try block
\* ends here
SearchExcept == Return(EmptyResponse(request), TRUE)

HybridBranch == request.searchType = "hybrid"
VectorBranch == request.searchType = "vector"

\* a dispatch that takes the keyword branch for searchType "keyword" only
KeywordBranch_strict == request.searchType = "keyword"

\* "else:" of the dispatch: every other searchType
KeywordBranch == ~HybridBranch /\ ~VectorBranch

\* a total that is len(results) in the three branches
ResponseTotal_local(res, engine_total) == Len(res)

\* total of the response: hits.total.value of the engine's reply in the hybrid
\* branch, len(results) in the two others
ResponseTotal(res, engine_total) == IF HybridBranch THEN engine_total ELSE Len(res)

\* the construction of the SearchResponse and "if self.cache:", the end of the
\* three branches
Finish(res, engine_total) ==
    LET resp == SearchResponse(ResponseTotal(res, engine_total), res, request.searchType,
                               Some(local.query_terms))
    IN  IF self.cache = "none" THEN Return(resp, FALSE)
        ELSE /\ pc' = "save"
             /\ local' = InitLocal
             /\ search_response' = Some(resp)
             /\ UNCHANGED <<outcome, exc, s3_objects, ddb_items>>

\* a rerank step taken whenever there are results, whatever the setting and the
\* reranker
RerankOrFinish_always(res, engine_total) ==
    IF res # << >>
    THEN Goto("rerank", [local EXCEPT !.results = res, !.engine_total = engine_total,
                                      !.hits = << >>, !.vector_results = << >>,
                                      !.seen_ids = {}])
    ELSE Finish(res, engine_total)

\* "if settings.ENABLE_RERANK and self.reranker and results:" of the keyword and
\* hybrid branches
RerankOrFinish(res, engine_total) ==
    IF ENABLE_RERANK /\ self.reranker /\ res # << >>
    THEN Goto("rerank", [local EXCEPT !.results = res, !.engine_total = engine_total,
                                      !.hits = << >>, !.vector_results = << >>,
                                      !.seen_ids = {}])
    ELSE Finish(res, engine_total)

-----------------------------------------------------------------------------
(* search(): the steps *)

\* search(), up to the call of expand_query: the engine check, the decoding of
\* the query, the empty-query return
search_start ==
    /\ pc = "start"
    /\ UNCHANGED <<cfgvars, log>>
    /\ IF ~self.opensearch_client THEN SearchExcept
       ELSE LET q == DecodeQuery(request.query)
            IN  IF QueryIsEmpty(q) THEN Return(EmptyResponse(request), FALSE)
                ELSE Goto("expand", [local EXCEPT !.query = q])

\* expand_query(query) and the dispatch on searchType, up to the first call of
\* the branch (the embedder for hybrid and vector, the engine for keyword)
search_expand(reply) ==
    /\ pc = "expand"
    /\ reply \in (IF RewriteNeedsLLM(Get(local.query), api_key) THEN SearchExpansionReplies
                  ELSE {[kind |-> "error", data |-> << >>]})
    /\ UNCHANGED <<cfgvars, log>>
    /\ LET terms == expand_query(Get(local.query), api_key, reply)
       IN  IF KeywordBranch THEN Goto("engine", [local EXCEPT !.query_terms = terms])
           ELSE IF ~self.embedder THEN SearchExcept
           ELSE Goto("embed", [local EXCEPT !.query_terms = terms])

\* an embedding step that, when the call fails, goes back to the expansion and
\* tries again
embed_query_retry(ok) ==
    /\ pc = "embed"
    /\ UNCHANGED <<cfgvars, log>>
    /\ IF ok THEN Goto("engine", local) ELSE Goto("expand", local)

\* _hybrid_search / _vector_search: self.embedder.get_embeddings(query)[0].tolist()
embed_query(ok) ==
    /\ pc = "embed"
    /\ UNCHANGED <<cfgvars, log>>
    /\ IF ok THEN Goto("engine", local) ELSE SearchExcept

\* the engine query of the branch and the loop over its hits, up to the next
\* collaborator call
engine_search(reply) ==
    /\ pc = "engine"
    /\ LET query_embedding == Embedding(Get(local.query))
           search_query ==
               IF HybridBranch
               THEN build_hybrid_search_query(local.query_terms, query_embedding,
                                              request.page, request.pageSize)
               ELSE IF VectorBranch
               THEN build_vector_search_query(query_embedding, local.query_terms,
                                              request.page, request.pageSize)
               ELSE build_keyword_search_query(local.query_terms, request.page,
                                               request.pageSize)
       IN  reply \in EngineAnswers(search_query)
    /\ UNCHANGED cfgvars
    /\ log' = IF reply.kind = "hits" /\ HybridBranch
              THEN [log EXCEPT !.hybrid_total = Some(reply.total)]
              ELSE IF reply.kind = "hits" /\ KeywordBranch
              THEN [log EXCEPT !.keyword_count = Some(Len(reply.hits))]
              ELSE log
    /\ IF reply.kind # "hits" THEN SearchExcept
       ELSE IF HybridBranch THEN RerankOrFinish(ResultsOf(reply.hits, "hybrid"), reply.total)
       ELSE IF VectorBranch
       THEN IF reply.hits = << >> THEN Finish(<< >>, 0)
            ELSE Goto("filter", [local EXCEPT !.hits = reply.hits])
       ELSE LET res == ResultsOf(reply.hits, "keyword")
                seen == {reply.hits[i].id : i \in DOMAIN reply.hits}
            IN  IF ShouldSupplement(Len(res), self.embedder)
                THEN Goto("supp_embed", [local EXCEPT !.results = res, !.seen_ids = seen])
                ELSE RerankOrFinish(res, 0)

\* an embedding step that gives up the embedder for good when the call fails
supplement_embed_disabling(ok) ==
    /\ pc = "supp_embed"
    /\ UNCHANGED <<ENABLE_RERANK, api_key, request, probe, log>>
    /\ IF ok THEN self' = self /\ Goto("supp_engine", local)
       ELSE self' = [self EXCEPT !.embedder = FALSE] /\ SearchExcept

\* _supplement_with_vector_search: the embedding of the combined query
supplement_embed(ok) ==
    /\ pc = "supp_embed"
    /\ UNCHANGED <<cfgvars, log>>
    /\ IF ok THEN Goto("supp_engine", local) ELSE SearchExcept

\* the supplementation without its final sort
Supplemented_unsorted(res, vector_res) == res \o vector_res

\* the end of _supplement_with_vector_search: results.extend(vector_results),
\* results.sort(...)
Supplemented(res, vector_res) == SortDesc(res \o vector_res)

\* _supplement_with_vector_search: the supplementary vector query
supplement_engine(reply) ==
    /\ pc = "supp_engine"
    /\ LET combined_query == JoinSpace(<<Get(local.query)>> \o local.query_terms)
       IN  reply \in EngineAnswers(supplement_search_query(Embedding(combined_query),
                                                           local.query_terms, local.results,
                                                           local.seen_ids))
    /\ UNCHANGED <<cfgvars, log>>
    /\ IF reply.kind # "hits" THEN SearchExcept
       ELSE IF reply.hits = << >> THEN RerankOrFinish(Supplemented(local.results, << >>), 0)
       ELSE Goto("filter", [local EXCEPT !.hits = reply.hits])

\* the candidate test without the score threshold
IsCandidate_noThreshold(hit, seen) == hit.id \notin seen

\* the supplementation's test of a candidate before it is evaluated:
\* "hit.id not in seen_ids and hit._score >= 0.1"
IsCandidate(hit, seen) == hit.id \notin seen /\ hit.score >= SCORE_THRESHOLD

\* one turn of the loop over the vector hits (of _vector_search, or of
\* _supplement_with_vector_search): evaluate_relevance and "if is_relevant:";
\* after the last hit, the rest of the function
filter_hit(reply) ==
    /\ pc = "filter"
    /\ LET hit == Head(local.hits)
           rest == Tail(local.hits)
           evaluate == VectorBranch \/ IsCandidate(hit, local.seen_ids)
           ev == evaluate_relevance(request.enableLlm, api_key, reply)
           keep == evaluate /\ Truthy(ev.is_relevant)
           vr == IF keep THEN Append(local.vector_results, VectorResult(hit, ev.reason))
                 ELSE local.vector_results
       IN  /\ reply \in (IF evaluate /\ NeedsLLM(request.enableLlm, api_key) THEN LLMReplies
                         ELSE {NoReply})
           /\ log' = [log EXCEPT !.llm_calls = @ + (IF evaluate /\ ev.called THEN 1 ELSE 0),
                                 !.evaluated = @ + (IF evaluate THEN 1 ELSE 0),
                                 !.dropped = @ + (IF evaluate /\ ~keep THEN 1 ELSE 0),
                                 !.verdicts = Append(@, IF evaluate THEN ev.is_relevant
                                                        ELSE "skipped")]
           /\ IF rest # << >>
              THEN Goto("filter", [local EXCEPT !.hits = rest, !.vector_results = vr])
              ELSE IF VectorBranch THEN Finish(vr, 0)
              ELSE RerankOrFinish(Supplemented(local.results, vr), 0)
    /\ UNCHANGED cfgvars

\* _rerank_results(query, results), then the end of the branch
rerank(reply) ==
    /\ pc = "rerank"
    /\ reply \in RerankReplies(Len(local.results))
    /\ UNCHANGED <<cfgvars, log>>
    /\ Finish(rerank_results(local.results, reply), local.engine_total)

\* a cache write whose failure is raised into search()
cache_save_raising(reply) ==
    /\ pc = "save"
    /\ reply \in StoreReplies
    /\ LET saved == save_search_result(self.cache, Get(DecodeQuery(request.query)),
                                         request.searchType, Get(search_response),
                                         request.enableLlm, reply)
       IN  /\ log' = [log EXCEPT !.save_calls = @ + 1, !.save_returned = saved.search_id]
           /\ IF saved.search_id = None THEN SearchExcept
              ELSE /\ search_response' = Some(WithSearchId(Get(search_response), saved.search_id))
                   /\ s3_objects' = saved.s3
                   /\ ddb_items' = saved.ddb
                   /\ pc' = "done"
                   /\ outcome' = "returned"
                   /\ UNCHANGED <<local, exc>>
    /\ UNCHANGED cfgvars

\* self.cache.save_search_result(...) and "if search_id:", then the return
cache_save(reply) ==
    /\ pc = "save"
    /\ reply \in StoreReplies
    /\ LET saved == save_search_result(self.cache, Get(DecodeQuery(request.query)),
                                         request.searchType, Get(search_response),
                                         request.enableLlm, reply)
       IN  /\ search_response' = Some(WithSearchId(Get(search_response), saved.search_id))
           /\ s3_objects' = saved.s3
           /\ ddb_items' = saved.ddb
           /\ log' = [log EXCEPT !.save_calls = @ + 1, !.save_returned = saved.search_id]
    /\ pc' = "done"
    /\ outcome' = "returned"
    /\ UNCHANGED <<cfgvars, local, exc>>

Next ==
    \/ search_start
    \/ \E reply \in SearchExpansionReplies : search_expand(reply)
    \/ \E ok \in BOOLEAN : embed_query(ok)
    \/ \E reply \in EngineReplies : engine_search(reply)
    \/ \E ok \in BOOLEAN : supplement_embed(ok)
    \/ \E reply \in EngineReplies : supplement_engine(reply)
    \/ \E reply \in SearchLLMReplies \cup {NoReply} : filter_hit(reply)
    \/ \E reply \in RerankReplies(Len(local.results)) : rerank(reply)
    \/ \E reply \in StoreReplies : cache_save(reply)

Spec == Init /\ [][Next]_vars

\* search() under the assumption that every collaborator call it is waiting for
\* eventually returns or raises: some step of the invocation is taken as long as
\* one is possible.  The invocations are those of a non-empty query for one
\* result per page on a service with engine, reranker and cache, with or without
\* embedder: the ones that make every call of the three branches.
InitLive ==
    /\ Init
    /\ ENABLE_RERANK
    /\ api_key
    /\ self.opensearch_client /\ self.reranker /\ self.cache = "s3"
    /\ request.query = Some(<<"%", "6", "7", "l">>)
    /\ request.pageSize = 1

SpecLive == InitLive /\ [][Next]_vars /\ WF_vars(Next)

-----------------------------------------------------------------------------
(* One function on its own: the inputs are drawn by Init, one step applies it *)

\* the part of the state the search uses, at rest
SearchIdle ==
    /\ ENABLE_RERANK = TRUE
    /\ api_key = TRUE
    /\ self = [opensearch_client |-> TRUE, embedder |-> TRUE, reranker |-> TRUE, cache |-> "none"]
    /\ request = [query |-> None, page |-> 1, pageSize |-> 1, searchType |-> "keyword",
                  enableLlm |-> FALSE]
    /\ pc = "probe"
    /\ local = InitLocal
    /\ search_response = None
    /\ outcome = "pending"
    /\ exc = FALSE
    /\ s3_objects = {}
    /\ ddb_items = {}
    /\ log = InitLog

searchvars == <<self, ENABLE_RERANK, api_key, request, pc, local, search_response, outcome,
                exc, s3_objects, ddb_items, log>>

\* the result lists _rerank_results is applied to
ResultLists == SeqsUpTo({KeywordResult(h, "keyword") : h \in Hits}, MaxResults)

InitRerank ==
    /\ SearchIdle
    /\ probe \in {[fn |-> "rerank_results", results |-> r, reply |-> rp, ret |-> None] :
                    r \in ResultLists, rp \in RerankReplies(MaxResults)}
    /\ probe.reply \in RerankReplies(Len(probe.results))

\* results = await self._rerank_results(query, results)
call_rerank_results ==
    /\ probe.fn = "rerank_results"
    /\ probe.ret = None
    /\ probe' = [probe EXCEPT !.ret = Some(rerank_results(probe.results, probe.reply))]
    /\ UNCHANGED searchvars

SpecRerank == InitRerank /\ [][call_rerank_results]_vars

InitRelevance ==
    /\ SearchIdle
    /\ probe \in [fn : {"evaluate_relevance"}, enable_llm : BOOLEAN, key : BOOLEAN,
                  reply : LLMReplies, ret : {None}, kept : {FALSE}]

\* is_relevant, reason = self.evaluate_relevance(query, eval_text, request.enableLlm)
\* and the callers' "if is_relevant:"
call_evaluate_relevance ==
    /\ probe.fn = "evaluate_relevance"
    /\ probe.ret = None
    /\ LET ev == evaluate_relevance(probe.enable_llm, probe.key, probe.reply)
       IN  probe' = [probe EXCEPT !.ret = Some(ev), !.kept = Truthy(ev.is_relevant)]
    /\ UNCHANGED searchvars

SpecRelevance == InitRelevance /\ [][call_evaluate_relevance]_vars

\* the term lists and the embeddings the builders are applied to
BuilderTerms == SeqsUpTo({<<"g", "l">>, <<"G", "L", "C">>, <<"x">>}, MaxTerms)
BuilderEmbeddings == {Embedding(<<"g", "l">>), Embedding(<<"x">>)}

InitBuilders ==
    /\ SearchIdle
    /\ probe \in [fn : {"build"}, builder : {"keyword", "vector", "hybrid"},
                  query_terms : BuilderTerms, query_embedding : BuilderEmbeddings,
                  page : 1..MaxPage, page_size : 1..MaxPageSize, ret : {None}]

\* search_query = self.build_..._search_query(...)
call_build_search_query ==
    /\ probe.fn = "build"
    /\ probe.ret = None
    /\ probe' = [probe EXCEPT !.ret = Some(
           CASE probe.builder = "keyword" ->
                  build_keyword_search_query(probe.query_terms, probe.page, probe.page_size)
             [] probe.builder = "vector" ->
                  build_vector_search_query(probe.query_embedding, probe.query_terms,
                                            probe.page, probe.page_size)
             [] probe.builder = "hybrid" ->
                  build_hybrid_search_query(probe.query_terms, probe.query_embedding,
                                            probe.page, probe.page_size))]
    /\ UNCHANGED searchvars

SpecBuilders == InitBuilders /\ [][call_build_search_query]_vars

\* the queries expand_query is applied to: "gl", "g", " gl", "gl ", "GLC", "x y", ""
ExpandQueries ==
    { <<"g", "l">>, <<"g">>, <<" ", "g", "l">>, <<"g", "l", " ">>, <<"G", "L", "C">>,
      <<"x", " ", "y">>, << >> }

InitExpand ==
    /\ SearchIdle
    /\ probe \in [fn : {"expand_query"}, query : ExpandQueries, key : BOOLEAN,
                  reply : ExpansionReplies, ret : {None}]
    /\ ~RewriteNeedsLLM(probe.query, probe.key) => probe.reply = [kind |-> "error", data |-> << >>]

\* query_terms = expand_query(query)
call_expand_query ==
    /\ probe.fn = "expand_query"
    /\ probe.ret = None
    /\ probe' = [probe EXCEPT !.ret = Some(expand_query(probe.query, probe.key, probe.reply))]
    /\ UNCHANGED searchvars

SpecExpand == InitExpand /\ [][call_expand_query]_vars

\* the term lists expand_query can return: no term twice
MatchTerms ==
    {t \in SeqsUpTo({<<"g", "l">>, <<"G", "L", "C">>}, 2) : Len(t) = Cardinality(Range(t))}

\* hit['_source'] of the hits: titles "gl" and "Glc x", keywords [] and ["GLC"]
MatchSources ==
    [title : {<<"g", "l">>, <<"G", "l", "c", " ", "x">>},
     keywords : {<< >>, << <<"G", "L", "C">> >>},
     abstract : {<<"x">>}]

\* the highlight texts of a hit: "<em>gl</em> x", "<em>gl</em> <em>GLC</em>", "x <em>"
HighlightTexts ==
    { EmOpen \o <<"g", "l">> \o EmClose \o <<" ", "x">>,
      EmOpen \o <<"g", "l">> \o EmClose \o <<" ">> \o EmOpen \o <<"G", "L", "C">> \o EmClose,
      <<"x", " ">> \o EmOpen }

InitMatched ==
    /\ SearchIdle
    /\ probe \in [fn : {"matched_keywords"}, query_terms : MatchTerms, hit_source : MatchSources,
                  highlight : SeqsUpTo(HighlightTexts, 2), ret : {None}]

\* the matched_keywords field of the SearchResult of a keyword or hybrid hit
call_matched_keywords ==
    /\ probe.fn = "matched_keywords"
    /\ probe.ret = None
    /\ \E highlight_matched \in ListsOf(extract_matched_keywords(probe.highlight)) :
          probe' = [probe EXCEPT !.ret = Some(MatchedKeywords(
                        find_matched_keywords(probe.query_terms, probe.hit_source),
                        highlight_matched))]
    /\ UNCHANGED searchvars

SpecMatched == InitMatched /\ [][call_matched_keywords]_vars

\* the lists the supplementation joins: the keyword results and the vector
\* results it kept, each in the engine's order
InitSupplement ==
    /\ SearchIdle
    /\ probe \in {[fn |-> "supplement", results |-> ResultsOf(k, "keyword"),
                   vector_results |-> [i \in DOMAIN v |-> VectorResult(v[i], "llm_not_enabled")],
                   ret |-> None] : k \in HitLists, v \in HitLists}

\* results.extend(vector_results); results.sort(...) of _supplement_with_vector_search
call_supplement_sort ==
    /\ probe.fn = "supplement"
    /\ probe.ret = None
    /\ probe' = [probe EXCEPT !.ret = Some(Supplemented(probe.results, probe.vector_results))]
    /\ UNCHANGED searchvars

\* the two sorts of the result list, each on its own
SpecSort ==
    /\ InitSupplement \/ InitRerank
    /\ [][call_supplement_sort \/ call_rerank_results]_vars

\* keyword result lists of the lengths around the supplementation limit
KeywordResultsOfLen(n) ==
    [i \in 1..n |-> KeywordResult([id |-> i, score |-> 0], "keyword")]

SupplementCounts == {0, 1, SUPPLEMENT_LIMIT - 1, SUPPLEMENT_LIMIT}

InitSupplementQuery ==
    /\ SearchIdle
    /\ probe \in [fn : {"supplement_query"}, query : {<<"g", "l">>},
                  query_terms : SeqsUpTo({<<"g", "l">>, <<"G", "L", "C">>, <<"x">>}, 2),
                  results : {KeywordResultsOfLen(n) : n \in SupplementCounts},
                  embedder : BOOLEAN, ran : {FALSE}, ret : {None}]

\* "if len(results) < 10000 and self.embedder:" and, inside
\* _supplement_with_vector_search, the query it sends to the engine
call_supplement_query ==
    /\ probe.fn = "supplement_query"
    /\ ~probe.ran
    /\ LET seen_ids == {probe.results[i].id : i \in DOMAIN probe.results}
           combined_query == JoinSpace(<<probe.query>> \o probe.query_terms)
       IN  probe' = [probe EXCEPT
               !.ran = TRUE,
               !.ret = IF ShouldSupplement(Len(probe.results), probe.embedder)
                       THEN Some(supplement_search_query(Embedding(combined_query),
                                                         probe.query_terms, probe.results,
                                                         seen_ids))
                       ELSE None]
    /\ UNCHANGED searchvars

\* the keyword search, and its supplementation decision and query on their own
SpecSupplement ==
    /\ Init \/ InitSupplementQuery
    /\ [][Next \/ call_supplement_query]_vars

-----------------------------------------------------------------------------
(* Two requests on one orchestrator.  search() is a coroutine: its parameters  *)
(* and local variables belong to the invocation, the handles of self and the   *)
(* stores behind the cache are shared.  The invocation that runs is held in    *)
(* the variables of the search, the other one is parked in probe; the event    *)
(* loop may pass from one to the other between any two steps.                  *)

\* the state that belongs to the running invocation
Invocation ==
    [request |-> request, pc |-> pc, local |-> local, search_response |-> search_response,
     outcome |-> outcome, exc |-> exc, log |-> log]

\* an invocation that has not started
NewInvocation(req) ==
    [request |-> req, pc |-> "start", local |-> InitLocal, search_response |-> None,
     outcome |-> "pending", exc |-> FALSE, log |-> InitLog]

\* the requests of the two invocations: a keyword search, and a vector or hybrid one
PairRequests ==
    {r \in Requests : r.query = Some(<<"%", "6", "7", "l">>) /\ r.pageSize = 1 /\ ~r.enableLlm}

\* search_engine = AsyncPaperSearch(), then two POST /search under way
InitPair ==
    /\ ENABLE_RERANK = TRUE
    /\ api_key = FALSE
    /\ self \in [opensearch_client : {TRUE}, embedder : {TRUE}, reranker : BOOLEAN,
                 cache : {"s3"}]
    /\ request \in {r \in PairRequests : r.searchType = "keyword"}
    /\ pc = "start"
    /\ local = InitLocal
    /\ search_response = None
    /\ outcome = "pending"
    /\ exc = FALSE
    /\ s3_objects = {}
    /\ ddb_items = {}
    /\ log = InitLog
    /\ probe \in {[fn |-> "pair", running |-> 1, parked |-> NewInvocation(r)] :
                    r \in {q \in PairRequests : q.searchType \in {"vector", "hybrid"}}}

\* the event loop passes from the running invocation to the parked one
switch ==
    /\ probe.fn = "pair"
    /\ probe' = [probe EXCEPT !.running = 3 - @, !.parked = Invocation]
    /\ request' = probe.parked.request
    /\ pc' = probe.parked.pc
    /\ local' = probe.parked.local
    /\ search_response' = probe.parked.search_response
    /\ outcome' = probe.parked.outcome
    /\ exc' = probe.parked.exc
    /\ log' = probe.parked.log
    /\ UNCHANGED <<self, ENABLE_RERANK, api_key, s3_objects, ddb_items>>

SpecPair == InitPair /\ [][Next \/ switch]_vars

-----------------------------------------------------------------------------
(* The cache on its own: saves, reads and deletes on one back end *)

MaxSaves == 2

\* the ids a read or a delete is called with: those the saves can generate and
\* one that is never generated
SearchIds == 1..(MaxSaves + 1)

\* the arguments of save_search_result: a hybrid response without results (total
\* is the engine's), a keyword response, a supplemented keyword response after a
\* rerank, a vector response
CacheSaves ==
    LET terms == Some(<< <<"g", "l">> >>)
        k == KeywordResult([id |-> 1, score |-> 1], "keyword")
        v == VectorResult([id |-> 2, score |-> 2], "llm_reason")
    IN  {[query |-> <<"g", "l">>, search_type |-> "hybrid", enable_llm |-> FALSE,
          response |-> SearchResponse(1, << >>, "hybrid", terms)],
         [query |-> <<"g", "l">>, search_type |-> "keyword", enable_llm |-> FALSE,
          response |-> SearchResponse(1, <<k>>, "keyword", terms)],
         [query |-> <<"G", "L", "C">>, search_type |-> "keyword", enable_llm |-> TRUE,
          response |-> SearchResponse(2, <<v, k>>, "keyword", terms)],
         [query |-> <<"x">>, search_type |-> "vector", enable_llm |-> FALSE,
          response |-> SearchResponse(1, <<VectorResult([id |-> 2, score |-> 0],
                                                        "llm_not_enabled")>>,
                                      "vector", Some(<< <<"x">> >>))]}

NoCall == [op |-> "none", id |-> 0, ok |-> TRUE, ret |-> None]

\* saved: the saves made, in order (the id generated, what was returned, the
\* arguments); deleted: the ids in use that delete_search_result was called with;
\* removed: the ids whose entries a delete took away; last: the last call and what it returned
InitCache ==
    /\ ENABLE_RERANK = TRUE
    /\ api_key = TRUE
    /\ self \in [opensearch_client : {TRUE}, embedder : {TRUE}, reranker : {TRUE},
                 cache : {"s3", "dynamodb"}]
    /\ request = [query |-> None, page |-> 1, pageSize |-> 1, searchType |-> "keyword",
                  enableLlm |-> FALSE]
    /\ pc = "probe"
    /\ local = InitLocal
    /\ search_response = None
    /\ outcome = "pending"
    /\ exc = FALSE
    /\ s3_objects = {}
    /\ ddb_items = {}
    /\ log = InitLog
    /\ probe = [fn |-> "cache", saved |-> << >>, deleted |-> {}, removed |-> {},
                last |-> NoCall]

cachevars == <<self, ENABLE_RERANK, api_key, request, pc, local, search_response, outcome,
               exc, log>>

\* search_id = self.cache.save_search_result(query, search_type, response, enable_llm)
call_save_search_result(args, reply) ==
    /\ probe.fn = "cache"
    /\ Len(probe.saved) < MaxSaves
    /\ LET id == NewSearchId
           saved == save_search_result(self.cache, args.query, args.search_type,
                                       args.response, args.enable_llm, reply)
       IN  /\ s3_objects' = saved.s3
           /\ ddb_items' = saved.ddb
           /\ probe' = [probe EXCEPT
                  !.saved = Append(@, [generated |-> id, id |-> saved.search_id, args |-> args]),
                  !.last = [op |-> "save", id |-> id, ok |-> reply.s3_ok /\ reply.ddb_ok,
                            ret |-> saved.search_id]]
    /\ UNCHANGED cachevars

\* result = search_engine.cache.get_search_result(search_id) of get_cached_search
call_get_search_result(search_id, reply) ==
    /\ probe.fn = "cache"
    /\ probe' = [probe EXCEPT
           !.last = [op |-> "get", id |-> search_id, ok |-> reply.s3_ok /\ reply.ddb_ok,
                     ret |-> get_search_result(self.cache, search_id, reply)]]
    /\ UNCHANGED <<cachevars, s3_objects, ddb_items>>

\* success = search_engine.cache.delete_search_result(search_id) of delete_cached_search
call_delete_search_result(search_id, reply) ==
    /\ probe.fn = "cache"
    /\ LET deleted == delete_search_result(self.cache, search_id, reply)
           gone == {i \in UsedIds : /\ EntriesOf(deleted.s3, i) = {}
                                    /\ EntriesOf(deleted.ddb, i) = {}}
       IN  /\ s3_objects' = deleted.s3
           /\ ddb_items' = deleted.ddb
           /\ probe' = [probe EXCEPT
                  !.deleted = @ \cup ({search_id} \cap UsedIds),
                  !.removed = gone,
                  !.last = [op |-> "delete", id |-> search_id,
                            ok |-> reply.get_ok /\ reply.s3 = "ok" /\ reply.ddb_ok,
                            ret |-> Some(deleted.ret)]]
    /\ UNCHANGED cachevars

SpecCache ==
    /\ InitCache
    /\ [][\/ \E args \in CacheSaves, reply \in StoreReplies :
                call_save_search_result(args, reply)
          \/ \E search_id \in SearchIds, reply \in StoreReplies :
                call_get_search_result(search_id, reply)
          \/ \E search_id \in SearchIds, reply \in DeleteReplies :
                call_delete_search_result(search_id, reply)]_vars

-----------------------------------------------------------------------------
(* The two back ends side by side: S3Cache on the bucket and the table of the
   service, DynamoDBCache on a table of its own (probe.table), given the same
   calls while the stores answer every call *)

\* the stores answer every call
StoresUp == [s3_ok |-> TRUE, ddb_ok |-> TRUE]

\* get_item, delete_object and delete_item all succeed
DeleteUp == [get_ok |-> TRUE, s3 |-> "ok", ddb_ok |-> TRUE]

\* what the caller sees of an Optional: something or None
OutcomeKind(opt) == IF IsNone(opt) THEN "none" ELSE "some"

NoStep == [op |-> "none", id |-> 0, s3 |-> "none", dynamodb |-> "none"]

\* table: the table of the DynamoDBCache; saves: the saves made; removed: the ids
\* whose entries a delete took away; last: the last call and the outcome kind each
\* back end gave
InitBackends ==
    /\ ENABLE_RERANK = TRUE
    /\ api_key = TRUE
    /\ self \in [opensearch_client : {TRUE}, embedder : {TRUE}, reranker : {TRUE},
                 cache : {"s3", "dynamodb"}]
    /\ request = [query |-> None, page |-> 1, pageSize |-> 1, searchType |-> "keyword",
                  enableLlm |-> FALSE]
    /\ pc = "probe"
    /\ local = InitLocal
    /\ search_response = None
    /\ outcome = "pending"
    /\ exc = FALSE
    /\ s3_objects = {}
    /\ ddb_items = {}
    /\ log = InitLog
    /\ probe = [fn |-> "backends", table |-> {}, saves |-> 0, removed |-> {}, last |-> NoStep]

\* save_search_result(query, search_type, response, enable_llm) on both back ends
both_save_search_result(args) ==
    /\ probe.fn = "backends"
    /\ probe.saves < MaxSaves
    /\ LET id == NewSearchId
           a == save_search_result_on(s3_objects, ddb_items, id, "s3", args.query,
                                      args.search_type, args.response, args.enable_llm,
                                      StoresUp)
           b == save_search_result_on({}, probe.table, id, "dynamodb", args.query,
                                      args.search_type, args.response, args.enable_llm,
                                      StoresUp)
       IN  /\ s3_objects' = a.s3
           /\ ddb_items' = a.ddb
           /\ probe' = [probe EXCEPT
                  !.table = b.ddb,
                  !.saves = @ + 1,
                  !.last = [op |-> "save", id |-> id, s3 |-> OutcomeKind(a.search_id),
                            dynamodb |-> OutcomeKind(b.search_id)]]
    /\ UNCHANGED cachevars

\* get_search_result(search_id) on both back ends
both_get_search_result(search_id) ==
    /\ probe.fn = "backends"
    /\ probe' = [probe EXCEPT
           !.last = [op |-> "get", id |-> search_id,
                     s3 |-> OutcomeKind(get_search_result_on(s3_objects, ddb_items, "s3",
                                                             search_id, StoresUp)),
                     dynamodb |-> OutcomeKind(get_search_result_on({}, probe.table, "dynamodb",
                                                                   search_id, StoresUp))]]
    /\ UNCHANGED <<cachevars, s3_objects, ddb_items>>

\* delete_search_result(search_id) on both back ends
both_delete_search_result(search_id) ==
    /\ probe.fn = "backends"
    /\ LET a == delete_search_result_on(s3_objects, ddb_items, "s3", search_id, DeleteUp)
           b == delete_search_result_on({}, probe.table, "dynamodb", search_id, DeleteUp)
           gone == {i \in UsedIds : /\ EntriesOf(a.s3, i) = {}
                                    /\ EntriesOf(a.ddb, i) = {}
                                    /\ EntriesOf(b.ddb, i) = {}}
       IN  /\ s3_objects' = a.s3
           /\ ddb_items' = a.ddb
           /\ probe' = [probe EXCEPT
                  !.table = b.ddb,
                  !.removed = gone,
                  !.last = [op |-> "delete", id |-> search_id, s3 |-> a.ret,
                            dynamodb |-> b.ret]]
    /\ UNCHANGED cachevars

SpecBackends ==
    /\ InitBackends
    /\ [][\/ \E args \in CacheSaves : both_save_search_result(args)
          \/ \E search_id \in SearchIds : both_get_search_result(search_id)
          \/ \E search_id \in SearchIds : both_delete_search_result(search_id)]_vars

-----------------------------------------------------------------------------
(* The routes of the application: which endpoint serves a request *)

\* the longest request path, in segments
MaxPathLen == 3

\* a path segment of a route: a literal or a path parameter ("{search_id}")
Lit(name) == [kind |-> "lit", name |-> name]

Param(name) == [kind |-> "param", name |-> name]

\* the routes in the order the decorators register them
Routes ==
    << [method |-> "GET", path |-> << >>, endpoint |-> "root"],
       [method |-> "GET", path |-> <<Lit("health")>>, endpoint |-> "health_check"],
       [method |-> "POST", path |-> <<Lit("search")>>, endpoint |-> "search_post"],
       [method |-> "GET", path |-> <<Lit("cache"), Param("search_id")>>,
        endpoint |-> "get_cached_search"],
       [method |-> "GET", path |-> <<Lit("cache"), Param("search_id"), Lit("metadata")>>,
        endpoint |-> "get_cached_search_metadata"],
       [method |-> "GET", path |-> <<Lit("cache"), Lit("stats")>>,
        endpoint |-> "get_cache_stats"],
       [method |-> "DELETE", path |-> <<Lit("cache"), Param("search_id")>>,
        endpoint |-> "delete_cached_search"] >>

\* the segments of the request paths: the literals of the routes and "u1", a
\* search id
PathSegments == {"health", "search", "cache", "stats", "metadata", "u1"}

Methods == {"GET", "POST", "DELETE"}

RequestPaths == UNION {[1..n -> PathSegments] : n \in 0..MaxPathLen}

\* the path of a route matches a request path: as many segments, every literal
\* equal; a path parameter takes any one segment
PathMatches(route_path, path) ==
    /\ Len(route_path) = Len(path)
    /\ \A i \in DOMAIN path : route_path[i].kind = "param" \/ route_path[i].name = path[i]

\* the path parameters a matching route binds
PathParams(route_path, path) ==
    {[name |-> route_path[i].name, value |-> path[i]] :
        i \in {j \in DOMAIN path : route_path[j].kind = "param"}}

\* the first route in registration order that matches path and method serves the
\* request; a path that only matches under another method gives 405, no match 404
Dispatch(method, path) ==
    LET full == {i \in DOMAIN Routes : /\ PathMatches(Routes[i].path, path)
                                       /\ Routes[i].method = method}
        partial == {i \in DOMAIN Routes : PathMatches(Routes[i].path, path)}
    IN  IF full # {}
        THEN LET first == CHOOSE i \in full : \A j \in full : i <= j
             IN  [endpoint |-> Routes[first].endpoint,
                  params |-> PathParams(Routes[first].path, path)]
        ELSE IF partial # {} THEN [endpoint |-> "405", params |-> {}]
        ELSE [endpoint |-> "404", params |-> {}]

InitRoutes ==
    /\ ENABLE_RERANK = TRUE
    /\ api_key = TRUE
    /\ self = [opensearch_client |-> TRUE, embedder |-> TRUE, reranker |-> TRUE,
               cache |-> "s3"]
    /\ request = [query |-> None, page |-> 1, pageSize |-> 1, searchType |-> "keyword",
                  enableLlm |-> FALSE]
    /\ pc = "probe"
    /\ local = InitLocal
    /\ search_response = None
    /\ outcome = "pending"
    /\ exc = FALSE
    /\ s3_objects = {}
    /\ ddb_items = {}
    /\ log = InitLog
    /\ \E method \in Methods, path \in RequestPaths :
           probe = [fn |-> "route", method |-> method, path |-> path, served |-> None]

\* the application receives the request and hands it to an endpoint
route_request ==
    /\ probe.fn = "route"
    /\ probe.served = None
    /\ probe' = [probe EXCEPT !.served = Some(Dispatch(probe.method, probe.path))]
    /\ UNCHANGED <<cachevars, s3_objects, ddb_items>>

SpecRoutes == InitRoutes /\ [][route_request]_vars

-----------------------------------------------------------------------------
(* The claims *)

Response == Get(search_response)

HasDuplicateId(res) == \E i, j \in DOMAIN res : i < j /\ res[i].id = res[j].id

\* C1: search() never raises to its caller: it always ends by returning a
\* SearchResponse, and whenever an exception reached its except clause (a failed
\* embedding or engine call, a malformed engine reply, an absent engine or
\* embedder) the response is total = 0, results = [], the request's searchType,
\* rewrittenTerms = None.
C1_NeverRaises ==
    /\ outcome # "raised"
    /\ pc = "done" => outcome = "returned" /\ search_response # None
    /\ exc => /\ pc = "done"
              /\ Response = [total |-> 0, results |-> << >>,
                             searchType |-> request.searchType,
                             rewrittenTerms |-> None, search_id |-> None]

\* a keyword search, engine and embedder present, that ended in the except
\* clause: a collaborator call failed on the way
C1_Witness ==
    /\ pc = "done" /\ exc
    /\ self.opensearch_client /\ self.embedder
    /\ request.searchType = "keyword"

\* C2: a request whose query is None or empty after URL-decoding gets, for every
\* searchType, the response total = 0, results = [], rewrittenTerms = None.
C2_EmptyQuery ==
    (pc = "done" /\ (request.query = None \/ unquote(Get(request.query)) = << >>))
        => /\ outcome = "returned"
           /\ Response.total = 0
           /\ Response.results = << >>
           /\ Response.rewrittenTerms = None

\* the empty string, returned by the empty-query test (the engine is there)
C2_Witness ==
    /\ pc = "done" /\ ~exc
    /\ request.query = Some(<< >>)
    /\ self.opensearch_client

\* C3: with no engine client (any searchType), or no embedder and searchType
\* vector or hybrid, search returns the empty response and raises nothing.
C3_AbsentDependency ==
    (/\ pc = "done"
     /\ \/ ~self.opensearch_client
        \/ ~self.embedder /\ request.searchType \in {"vector", "hybrid"})
        => /\ outcome = "returned"
           /\ Response.total = 0
           /\ Response.results = << >>

\* a hybrid search of a non-empty query without embedder, the engine present
C3_Witness ==
    /\ pc = "done" /\ exc
    /\ self.opensearch_client /\ ~self.embedder
    /\ request.searchType = "hybrid"
    /\ request.query # None /\ unquote(Get(request.query)) # << >>

\* C4: the cache write is best-effort: the step that saves the response leaves
\* its total, results, searchType and rewrittenTerms as built, whatever the
\* stores do, and search_id is what the write returned (None when it failed);
\* a response that was never saved has no search_id.
C4_CacheBestEffort ==
    /\ [](pc = "done" /\ log.save_calls = 0 => Response.search_id = None)
    /\ [][pc = "save" =>
            /\ outcome' = "returned"
            /\ Get(search_response').total = Response.total
            /\ Get(search_response').results = Response.results
            /\ Get(search_response').searchType = Response.searchType
            /\ Get(search_response').rewrittenTerms = Response.rewrittenTerms
            /\ Get(search_response').search_id = log'.save_returned]_vars

\* a search with results whose S3 cache write failed
C4_Witness ==
    /\ pc = "done"
    /\ self.cache = "s3"
    /\ log.save_calls = 1 /\ log.save_returned = None
    /\ Response.results # << >>
    /\ Response.search_id = None

\* C5: no two entries of a returned results list have the same id, whatever
\* hit lists the engine returned.
C5_NoDuplicateIds == pc = "done" => ~HasDuplicateId(Response.results)

\* C6: at the return of search the scores of results are non-increasing, for
\* every strategy, whether reranking ran, failed or was skipped.
C6_ScoresNonIncreasing ==
    pc = "done" => \A i \in 1..(Len(Response.results) - 1) :
                        Response.results[i].score >= Response.results[i + 1].score

\* a supplemented keyword search where a vector entry was sorted in front of a
\* keyword entry
C6_Witness ==
    /\ pc = "done"
    /\ \E i, j \in DOMAIN Response.results :
          /\ i < j
          /\ Response.results[i].source = "vector"
          /\ Response.results[j].source = "keyword"
          /\ Response.results[i].score > Response.results[j].score

\* the results with scores[i] as the score of the i-th entry, sorted
AlignedRerank(res, scores) == SortDesc([i \in DOMAIN res |-> [res[i] EXCEPT !.score = scores[i]]])

\* C7: when reranking succeeds (one score per result), each result gets the
\* score the endpoint computed for that same result, and the list is sorted by it.
C7_RerankAligned ==
    (/\ probe.fn = "rerank_results" /\ probe.ret # None
     /\ probe.reply.kind = "data"
     /\ probe.results # << >>
     /\ Len(probe.reply.scores) = Len(probe.results))
        => Get(probe.ret) = AlignedRerank(probe.results, probe.reply.scores)

\* how many entries of res are the document d
Occurrences(res, d) == Cardinality({i \in DOMAIN res : res[i].id = d})

\* C8: reranking never removes or adds a result, also with fewer scores than
\* results; when the call fails, the reply has an unexpected shape or holds no
\* score, the list passes through unchanged.
C8_RerankKeepsResults ==
    (probe.fn = "rerank_results" /\ probe.ret # None)
        => /\ Len(Get(probe.ret)) = Len(probe.results)
           /\ \A d \in 1..MaxDoc :
                Occurrences(Get(probe.ret), d) = Occurrences(probe.results, d)
           /\ (probe.reply.kind # "data" \/ probe.reply.scores = << >>)
                => Get(probe.ret) = probe.results

\* a reply with one score for two results
C8_Witness ==
    /\ probe.fn = "rerank_results" /\ probe.ret # None
    /\ probe.reply.kind = "data"
    /\ Len(probe.reply.scores) = 1
    /\ Len(probe.results) = 2

\* a failed call, or a reply that is malformed: no JSON block, undecodable JSON,
\* no JSON object, no is_relevant member, or one that is no boolean
MalformedLLMReply(r) ==
    \/ r.kind \in {"exception", "no_json", "bad_json", "not_object"}
    \/ r.kind = "object" /\ r.rel \notin {"true", "false"}

\* the reasons evaluate_relevance gives for a failure
FailureReasons ==
    {"evaluation_error", "json_content_not_found", "json_decode_failed", "reason_parse_failed"}

\* C9: the gate is fail-open: enabled and with a credential, after a failed call
\* or a malformed reply the candidate is treated as relevant and kept, and the
\* reason records the failure.
C9_FailOpen ==
    (/\ probe.fn = "evaluate_relevance" /\ probe.ret # None
     /\ probe.enable_llm /\ probe.key
     /\ MalformedLLMReply(probe.reply))
        => /\ probe.kept
           /\ Get(probe.ret).reason \in FailureReasons

\* the vector-sourced entries of the lists the invocation holds
VectorEntries ==
    LET all == local.results \o local.vector_results
                 \o (IF search_response = None THEN << >> ELSE Response.results)
    IN  {all[i] : i \in {k \in DOMAIN all : all[k].source = "vector"}}

\* C10: with enableLlm false, or with no LLM credential, evaluate_relevance
\* returns true with a fixed reason and makes no LLM call: no candidate is
\* dropped by the filter.
C10_GateDisabled ==
    ~(request.enableLlm /\ api_key)
        => /\ log.llm_calls = 0
           /\ log.dropped = 0
           /\ \A r \in VectorEntries :
                r.relevance_reason =
                    Some(IF ~request.enableLlm THEN "llm_not_enabled" ELSE "no_api_key")

\* a vector search, the gate disabled, that evaluated two hits and returned both
C10_Witness ==
    /\ pc = "done"
    /\ ~request.enableLlm /\ api_key
    /\ request.searchType = "vector"
    /\ log.evaluated = 2
    /\ Len(Response.results) = 2


\* the last verdict recorded: the one of the hit the filter has just visited
LastVerdict(l) == l.verdicts[Len(l.verdicts)]

\* how many of the vector hits visited were judged relevant
RelevantCount == Cardinality({i \in DOMAIN log.verdicts : log.verdicts[i] = "true"})

SameHit(entry, hit) == entry.id = hit.id /\ entry.score = hit.score /\ entry.source = "vector"

\* C11: a vector response holds exactly the engine's hits that the relevance
\* filter judged relevant (every hit when the filter is a pass-through), in the
\* engine's order, and total is their number: each turn of the filter loop
\* appends the hit it visits when the verdict is relevant and leaves the list
\* alone otherwise, and the response returned is the list so built.
C11_VectorFiltered ==
    /\ [](pc = "done" /\ VectorBranch /\ ~exc =>
            /\ Response.total = Len(Response.results)
            /\ Len(Response.results) = RelevantCount
            /\ \A i \in DOMAIN Response.results : Response.results[i].source = "vector")
    /\ [][pc = "filter" /\ VectorBranch =>
            LET before == local.vector_results
                after == IF pc' = "filter" THEN local'.vector_results
                         ELSE Get(search_response').results
            IN  IF LastVerdict(log') = "true"
                THEN /\ Len(after) = Len(before) + 1
                     /\ SubSeq(after, 1, Len(before)) = before
                     /\ SameHit(after[Len(after)], Head(local.hits))
                ELSE after = before]_vars

\* a vector search whose first hit was judged irrelevant and whose second hit was
\* judged relevant: the response holds the second hit only
C11_Witness ==
    /\ pc = "done" /\ VectorBranch /\ ~exc
    /\ log.verdicts = <<"false", "true">>
    /\ Len(Response.results) = 1

\* the ids of a result list
Ids(res) == {res[i].id : i \in DOMAIN res}

SourceCount(res, src) == Cardinality({i \in DOMAIN res : res[i].source = src})

C13_HybridPage ==
    pc = "done" /\ HybridBranch
        => /\ Len(Response.results) <= request.pageSize
           /\ \A i \in DOMAIN Response.results : Response.results[i].source = "hybrid"

\* a hybrid search with pageSize 1 that returned one result of an engine total of 2
C13_Witness ==
    /\ pc = "done" /\ HybridBranch /\ ~exc
    /\ request.pageSize = 1
    /\ Len(Response.results) = 1
    /\ Response.total = 2

\* the request's query is empty or None once decoded
EmptyQuery == request.query = None \/ unquote(Get(request.query)) = << >>

\* C14 as stated: every response returned, also the one of an empty query and
\* the one of a failed request, has at least one rewritten term.
C14_AlwaysTerms ==
    pc = "done" => Response.rewrittenTerms # None /\ Len(Get(Response.rewrittenTerms)) >= 1

\* C14 amended: every response returned for a non-empty query, no exception
\* having reached the except clause of search(), has at least one rewritten term.
C14_TermsWhenBuilt ==
    pc = "done" /\ ~exc /\ ~EmptyQuery
        => Response.rewrittenTerms # None /\ Len(Get(Response.rewrittenTerms)) >= 1

\* a search whose expansion could not use the LLM (no credential): the term
\* list is the query alone
C14_Witness ==
    /\ pc = "done" /\ ~exc /\ ~EmptyQuery
    /\ ~api_key
    /\ Response.rewrittenTerms = Some(<< <<"g", "l">> >>)

\* C18: there is no partial-success response: when a step raises after keyword
\* hits were retrieved (the embedding or the engine query of the supplementation
\* fails), the response is total = 0, results = [].
C18_NoPartialResponse ==
    (exc /\ log.keyword_count # None /\ Get(log.keyword_count) > 0)
        => /\ pc = "done"
           /\ outcome = "returned"
           /\ Response.total = 0
           /\ Response.results = << >>

\* a keyword search that had retrieved two hits when the supplementation raised
C18_Witness ==
    /\ pc = "done" /\ exc
    /\ KeywordBranch
    /\ log.keyword_count = Some(2)


\* C19: the keyword descriptor has from = (page - 1) * pageSize and
\* size = pageSize, asks for at least one clause to match, and its should list
\* holds, for each term in term order, three phrase clauses: title with boost 5,
\* keywords with boost 10, abstract with boost 2.
C19_KeywordDescriptor ==
    (probe.fn = "build" /\ probe.builder = "keyword" /\ probe.ret # None)
        => LET d == Get(probe.ret)
               should == d.query.bool.should
               terms == probe.query_terms
           IN  /\ d.from = (probe.page - 1) * probe.page_size
               /\ d.size = probe.page_size
               /\ d.query.bool.minimum_should_match = 1
               /\ Len(should) = 3 * Len(terms)
               /\ \A i \in DOMAIN terms :
                    /\ should[3 * i - 2] =
                         [match_phrase |-> [field |-> "title", query |-> terms[i], boost |-> 5]]
                    /\ should[3 * i - 1] =
                         [match_phrase |-> [field |-> "keywords", query |-> terms[i], boost |-> 10]]
                    /\ should[3 * i] =
                         [match_phrase |-> [field |-> "abstract", query |-> terms[i], boost |-> 2]]

\* three terms on page 2 with pageSize 2: nine clauses, from = 2
C19_Witness ==
    /\ probe.fn = "build" /\ probe.builder = "keyword" /\ probe.ret # None
    /\ Len(probe.query_terms) = 3
    /\ probe.page = 2 /\ probe.page_size = 2
    /\ Len(Get(probe.ret).query.bool.should) = 9
    /\ Get(probe.ret).from = 2


NoDuplicates(seq) == \A i, j \in DOMAIN seq : i # j => seq[i] # seq[j]

\* the expansion failed or yielded nothing usable: no credential, a query too
\* short, a failed call, a reply without JSON block, a <json> block that is
\* undecodable or unterminated, JSON without a usable term
ExpansionFailed(q, key, reply) ==
    \/ ~key
    \/ Len(Strip(q)) < 2
    \/ reply.kind \in {"error", "no_json", "bare_invalid", "unterminated", "tagged_invalid"}
    \/ \A i \in DOMAIN reply.data : reply.data[i] = << >>

\* C15: expand_query returns a non-empty list without duplicate terms, and the
\* list is exactly [query] whenever the expansion failed or yielded nothing usable.
C15_ExpandQuery ==
    (probe.fn = "expand_query" /\ probe.ret # None)
        => /\ Get(probe.ret) # << >>
           /\ NoDuplicates(Get(probe.ret))
           /\ ExpansionFailed(probe.query, probe.key, probe.reply)
                => Get(probe.ret) = <<probe.query>>


\* C16: matchedKeywords of a keyword or hybrid result holds no entry twice,
\* also when a term is both a substring match and a highlighted term.
C16_MatchedKeywordsSet ==
    (probe.fn = "matched_keywords" /\ probe.ret # None) => NoDuplicates(Get(probe.ret))


\* the entries of s whose score is v, in their order in s
Tied(s, v) == LET HasScore(e) == e.score = v IN SelectSeq(s, HasScore)

\* after is before reordered (scores aside), the entries that are tied in after
\* standing in the order they had in before
StableReorder(before, after) ==
    /\ Len(after) = Len(before)
    /\ \E p \in Permutations(DOMAIN before) :
          /\ \A k \in DOMAIN after :
                after[k].id = before[p[k]].id /\ after[k].source = before[p[k]].source
          /\ \A k, l \in DOMAIN after :
                k < l /\ after[k].score = after[l].score => p[k] < p[l]

\* C17: both sorts of the result list are stable.  After the supplementation the
\* entries of each score stand in the order they had in results + vector_results
\* (keyword hits before supplement hits of equal score); after a rerank the
\* entries with equal new scores stand in the order of the list handed in.
C17_StableSorts ==
    /\ (probe.fn = "supplement" /\ probe.ret # None)
          => \A v \in 0..MaxScore :
                Tied(Get(probe.ret), v) = Tied(probe.results \o probe.vector_results, v)
    /\ (probe.fn = "rerank_results" /\ probe.ret # None)
          => StableReorder(probe.results, Get(probe.ret))

\* a keyword hit and a supplement hit of equal score under a better supplement
\* hit: the sort moved the better one to the front and kept the keyword hit
\* before the other
C17_Witness ==
    /\ probe.fn = "supplement" /\ probe.ret # None
    /\ Len(probe.results) = 1 /\ Len(probe.vector_results) = 2
    /\ probe.vector_results[1].score > probe.results[1].score
    /\ probe.vector_results[2].score = probe.results[1].score
    /\ Get(probe.ret)[2].source = "keyword"
    /\ Get(probe.ret)[3].source = "vector"


\* C21: the total of a hybrid response is the total the engine reported for the
\* hybrid query, whatever the length of the results; the total of a keyword or vector
\* response is the length of the results it returns.
C21_Total ==
    search_response # None =>
        IF HybridBranch /\ log.hybrid_total # None
        THEN Response.total = Get(log.hybrid_total)
        ELSE Response.total = Len(Response.results)

\* a reranked hybrid response whose total is not the length of its results
C21_Witness ==
    /\ pc = "done" /\ HybridBranch /\ self.reranker
    /\ log.hybrid_total # None
    /\ Response.total = Len(Response.results) + 1
    /\ Len(Response.results) = 2


\* C29: S3Cache.save_search_result stores all or nothing: when it returns an id
\* the S3 object and the DynamoDB item of that id are stored, and when it returns
\* None neither an S3 object nor a DynamoDB item of the generated id is stored.
C29_SaveAtomic ==
    (probe.fn = "cache" /\ self.cache = "s3" /\ probe.last.op = "save")
        => LET id == probe.last.id
           IN  IF probe.last.ret # None
               THEN /\ probe.last.ret = Some(id)
                    /\ EntriesOf(s3_objects, id) # {}
                    /\ EntriesOf(ddb_items, id) # {}
               ELSE /\ EntriesOf(s3_objects, id) = {}
                    /\ EntriesOf(ddb_items, id) = {}

\* the saves that returned the id
SavedAs(search_id) == {k \in DOMAIN probe.saved : probe.saved[k].id = Some(search_id)}

\* the stored entry is the result: same id, score and source (DynamoDBCache holds
\* the score as a Decimal)
SameEntry(stored, result) ==
    /\ stored.id = result.id
    /\ stored.source = result.source
    /\ stored.score = IF self.cache = "s3" THEN result.score ELSE Decimal(result.score)

\* C30: get_search_result of an id that a save returned, no delete of that id
\* and no store failure in between, returns an entry with the saved results in
\* their order (id, score, source) and the saved total_results, query, search_type
\* and rewritten_terms; get_search_result of an id no save returned is None.
C30_RoundTrip ==
    (probe.fn = "cache" /\ probe.last.op = "get")
        => LET id == probe.last.id
               ret == probe.last.ret
           IN  /\ SavedAs(id) = {} => ret = None
               /\ \A k \in SavedAs(id) :
                    (probe.last.ok /\ id \notin probe.deleted)
                        => /\ ret # None
                           /\ LET entry == Get(ret)
                                  args == probe.saved[k].args
                              IN  /\ Len(entry.results) = Len(args.response.results)
                                  /\ \A i \in DOMAIN entry.results :
                                        SameEntry(entry.results[i], args.response.results[i])
                                  /\ entry.total_results = args.response.total
                                  /\ entry.query = args.query
                                  /\ entry.search_type = args.search_type
                                  /\ entry.rewritten_terms = Get(args.response.rewrittenTerms)

\* the second of two saves on S3Cache, a response with two results, read back
C30_Witness ==
    /\ probe.fn = "cache" /\ self.cache = "s3"
    /\ probe.last.op = "get" /\ probe.last.ok
    /\ probe.last.id = 2 /\ probe.last.id \notin probe.deleted
    /\ probe.last.ret # None
    /\ Len(Get(probe.last.ret).results) = 2
    /\ Get(probe.last.ret).results[1].source = "vector"


\* a response apart from its search_id
Built(resp) ==
    [total |-> resp.total, results |-> resp.results, searchType |-> resp.searchType,
     rewrittenTerms |-> resp.rewrittenTerms]

\* C22: the SearchResponse is constructed once, at the step that ends the
\* retrieval, filtering, supplementation and reranking (only the cache write can
\* follow), and with no search_id; what the cache stores is taken from it as it
\* was built; once constructed, no step changes its total, results, searchType
\* or rewrittenTerms: search_id is the only field a later step sets.
C22_ConstructedOnce ==
    [][/\ search_response = None /\ search_response' # None
            => /\ pc' \in {"save", "done"}
               /\ Get(search_response').search_id = None
       /\ search_response # None
            => /\ search_response' # None
               /\ Built(Get(search_response')) = Built(Response)
               /\ pc = "save" /\ pc' = "done"
               /\ \A o \in (s3_objects' \ s3_objects) \cup (ddb_items' \ ddb_items) :
                     /\ o.total_results = Response.total
                     /\ o.rewritten_terms = OrEmptyList(Response.rewrittenTerms)
                     /\ o.search_type = Response.searchType
               /\ \A o \in s3_objects' \ s3_objects :
                     o.results = serialize_search_results(Response.results)]_vars

\* a reranked keyword response with a vector entry, saved by DynamoDBCache
C22_Witness ==
    /\ pc = "done" /\ KeywordBranch /\ self.reranker
    /\ self.cache = "dynamodb"
    /\ Response.search_id # None
    /\ ddb_items # {}
    /\ \E i \in DOMAIN Response.results : Response.results[i].source = "vector"


\* C23: a result carries a relevance_reason only when the LLM evaluation was
\* performed for it: never a keyword or hybrid result, and a vector result only
\* with enableLlm on and a credential configured.
C23_ReasonOnlyWhenGateRan ==
    pc = "done" =>
        \A i \in DOMAIN Response.results :
            LET r == Response.results[i]
            IN  /\ r.source \in {"keyword", "hybrid"} => r.relevance_reason = None
                /\ r.relevance_reason # None => NeedsLLM(request.enableLlm, api_key)


\* C25: the supplementation runs exactly when there are fewer than 10000 keyword
\* results and an embedder; without embedder the keyword search returns its
\* keyword hits and does not fail.  The supplementary query asks for 10000 - c
\* nearest neighbours and its must_not list holds the ids of the keyword results
\* and, for each expanded term, a phrase clause on title, keywords and abstract.
C25_Supplementation ==
    /\ [](probe.fn = "supplement_query" /\ probe.ran =>
            LET c == Len(probe.results)
                terms == probe.query_terms
            IN  /\ probe.ret # None <=> (c < 10000 /\ probe.embedder)
                /\ probe.ret # None =>
                     LET d == Get(probe.ret)
                         must_not == d.query.bool.must_not
                     IN  /\ d.size = 10000 - c
                         /\ d.query.bool.must.knn.k = 10000 - c
                         /\ Len(must_not) = 1 + 3 * Len(terms)
                         /\ must_not[1] = [terms |-> [id |-> Ids(probe.results)]]
                         /\ \A i \in DOMAIN terms :
                              /\ must_not[3 * i - 1] =
                                   [match_phrase |-> [field |-> "title", query |-> terms[i]]]
                              /\ must_not[3 * i] =
                                   [match_phrase |-> [field |-> "keywords", query |-> terms[i]]]
                              /\ must_not[3 * i + 1] =
                                   [match_phrase |-> [field |-> "abstract", query |-> terms[i]]])
    /\ [](pc = "done" /\ KeywordBranch /\ ~self.embedder /\ log.keyword_count # None =>
            /\ ~exc
            /\ Len(Response.results) = Get(log.keyword_count)
            /\ SourceCount(Response.results, "keyword") = Get(log.keyword_count))
    /\ [][pc = "engine" /\ KeywordBranch /\ log'.keyword_count # None =>
            (pc' = "supp_embed" <=> self.embedder)]_vars

\* 9999 keyword results and two terms: the supplementary query asks for one hit
\* and excludes 9999 ids and six phrases
C25_Witness ==
    /\ probe.fn = "supplement_query" /\ probe.ran
    /\ Len(probe.results) = SUPPLEMENT_LIMIT - 1
    /\ Len(probe.query_terms) = 2
    /\ probe.ret # None
    /\ Get(probe.ret).size = 1
    /\ Len(Get(probe.ret).query.bool.must_not) = 7


\* C27: the vector descriptor is a k-NN query on the embedding with k = pageSize,
\* from = (page - 1) * pageSize and size = pageSize, and its must_not list holds,
\* for each term in term order, exactly three phrase clauses: title, keywords,
\* abstract.
C27_VectorDescriptor ==
    (probe.fn = "build" /\ probe.builder = "vector" /\ probe.ret # None)
        => LET d == Get(probe.ret)
               must_not == d.query.bool.must_not
               terms == probe.query_terms
           IN  /\ d.from = (probe.page - 1) * probe.page_size
               /\ d.size = probe.page_size
               /\ d.query.bool.must.knn = [vector |-> probe.query_embedding,
                                           k |-> probe.page_size]
               /\ Len(must_not) = 3 * Len(terms)
               /\ \A i \in DOMAIN terms :
                    /\ must_not[3 * i - 2] =
                         [match_phrase |-> [field |-> "title", query |-> terms[i]]]
                    /\ must_not[3 * i - 1] =
                         [match_phrase |-> [field |-> "keywords", query |-> terms[i]]]
                    /\ must_not[3 * i] =
                         [match_phrase |-> [field |-> "abstract", query |-> terms[i]]]

\* two terms on page 3 with pageSize 2: six exclusions, from = 4, k = 2
C27_Witness ==
    /\ probe.fn = "build" /\ probe.builder = "vector" /\ probe.ret # None
    /\ Len(probe.query_terms) = 2
    /\ probe.page = 3 /\ probe.page_size = 2
    /\ Get(probe.ret).from = 4
    /\ Get(probe.ret).query.bool.must.knn.k = 2
    /\ Len(Get(probe.ret).query.bool.must_not) = 6


\* nothing was handed to the cache: no call, no search_id, nothing stored
NothingSaved ==
    /\ log.save_calls = 0
    /\ Response.search_id = None
    /\ s3_objects = {} /\ ddb_items = {}

\* C28 as stated: the save is never invoked on the empty-query return and on the
\* failure paths, and is invoked exactly once on every successful path.
C28_SavedOnce ==
    pc = "done" => IF EmptyQuery \/ exc THEN NothingSaved ELSE log.save_calls = 1

\* C28 amended: the save is never invoked on the empty-query return and on the
\* failure paths; on a successful path it is invoked exactly once when the
\* orchestrator has a cache, and not at all when it has none.
C28_SavedOnceWithCache ==
    /\ log.save_calls <= 1
    /\ pc = "done" =>
          IF EmptyQuery \/ exc \/ self.cache = "none" THEN NothingSaved
          ELSE log.save_calls = 1

\* a vector search that failed at the engine query, a cache being configured
C28_Witness ==
    /\ pc = "done" /\ exc /\ ~EmptyQuery
    /\ VectorBranch /\ self.embedder /\ self.opensearch_client
    /\ self.cache = "s3"
    /\ log.save_calls = 0


\* the place of a step in the order the claim states: expansion, embedding,
\* engine query, relevance evaluation, reranking, cache save
StatedRank(p) ==
    CASE p = "start" -> 0
      [] p = "expand" -> 1
      [] p \in {"embed", "supp_embed"} -> 2
      [] p \in {"engine", "supp_engine"} -> 3
      [] p = "filter" -> 4
      [] p = "rerank" -> 5
      [] p = "save" -> 6
      [] OTHER -> 7

\* the place of a step in the order of the code: the keyword search queries the
\* engine first and embeds the combined query for its supplementation afterwards
CallRank(p) ==
    CASE p = "start" -> 0
      [] p = "expand" -> 1
      [] p = "embed" -> 2
      [] p = "engine" -> 3
      [] p = "supp_embed" -> 4
      [] p = "supp_engine" -> 5
      [] p = "filter" -> 6
      [] p = "rerank" -> 7
      [] p = "save" -> 8
      [] OTHER -> 9

\* one more turn of the loop over the vector hits: the next hit, in hit order
NextHit == pc = "filter" /\ pc' = "filter" /\ local'.hits = Tail(local.hits)

\* C26 as stated: the collaborator calls of a request follow one another in the
\* order expansion, embedding, engine query, relevance evaluation, reranking,
\* cache save, each made at most once (the evaluation once per hit).
C26_StatedOrder == [][StatedRank(pc') > StatedRank(pc) \/ NextHit]_vars

\* C26 amended: the calls follow one another in the order expansion, embedding
\* and engine query (hybrid, vector) or keyword engine query, embedding of the
\* combined query and supplementary engine query (keyword), relevance evaluation
\* once per candidate hit in hit order, reranking, cache save; no call is made
\* twice, and a call that fails ends the request: it is never retried.
C26_CallOrder ==
    [][/\ CallRank(pc') > CallRank(pc) \/ NextHit
       /\ pc' = "embed" => ~KeywordBranch
       /\ pc' \in {"supp_embed", "supp_engine"} => KeywordBranch
       /\ pc = "filter" =>
            /\ Len(log'.verdicts) = Len(log.verdicts) + 1
            /\ log'.evaluated = log.evaluated + (IF LastVerdict(log') = "skipped" THEN 0 ELSE 1)
            /\ log'.llm_calls <= log.llm_calls + 1
       /\ exc' => pc' = "done"]_vars

\* a keyword search that went through every call: expansion, keyword query,
\* embedding, supplementary query, two evaluations by the LLM, rerank, save
C26_Witness ==
    /\ pc = "done" /\ ~exc /\ KeywordBranch
    /\ log.keyword_count = Some(1)
    /\ log.llm_calls = 2
    /\ self.reranker
    /\ log.save_calls = 1


\* the object stored under the search_id of the response is that response's
StoredIsOwn(inv) ==
    LET resp == Get(inv.search_response)
    IN  resp.search_id # None =>
            \E o \in s3_objects :
                /\ EntriesOf(s3_objects, Get(resp.search_id)) = {o}
                /\ o.search_type = inv.request.searchType
                /\ o.total_results = resp.total
                /\ o.results = serialize_search_results(resp.results)

\* C24: two requests under way on one orchestrator do not interfere, however
\* their steps interleave: no step of search writes a handle of self or a
\* setting, a step of one invocation leaves the other invocation's state as it
\* is, the stores only grow, and at the end each response carries its own
\* request's searchType and, when it was saved, an id of its own under which its
\* own results are stored.
C24_NoInterference ==
    /\ [][/\ self' = self /\ ENABLE_RERANK' = ENABLE_RERANK /\ api_key' = api_key
          /\ s3_objects \subseteq s3_objects' /\ ddb_items \subseteq ddb_items'
          /\ probe'.running = probe.running
                => probe'.parked = probe.parked /\ request' = request]_vars
    /\ [](probe.fn = "pair" /\ pc = "done" /\ probe.parked.pc = "done" =>
            /\ Response.searchType = request.searchType
            /\ Get(probe.parked.search_response).searchType = probe.parked.request.searchType
            /\ StoredIsOwn(Invocation)
            /\ StoredIsOwn(probe.parked)
            /\ Response.search_id # None
                  => Response.search_id # Get(probe.parked.search_response).search_id)

\* both requests returned results and were saved, the keyword search after the
\* other one
C24_Witness ==
    /\ probe.fn = "pair" /\ pc = "done" /\ probe.parked.pc = "done"
    /\ Response.search_id = Some(2)
    /\ Get(probe.parked.search_response).search_id = Some(1)
    /\ request.searchType = "keyword"
    /\ Response.results # << >>
    /\ Get(probe.parked.search_response).results # << >>


\* C31: when S3Cache.delete_search_result(id) returns True, the S3 object and the
\* DynamoDB item of the id are gone and get_search_result(id) and
\* get_search_metadata(id) return None; when it returns False, the stores are as
\* they were before the call.
C31_DeleteAllOrNothing ==
    [][(probe.fn = "cache" /\ self.cache = "s3" /\ probe'.last.op = "delete") =>
          \A id \in SearchIds :
              id = probe'.last.id =>
                  IF probe'.last.ret = Some(TRUE)
                  THEN /\ EntriesOf(s3_objects', id) = {}
                       /\ EntriesOf(ddb_items', id) = {}
                       /\ (get_search_result("s3", id, StoresUp))' = None
                       /\ (get_search_metadata(id, StoresUp))' = None
                  ELSE /\ s3_objects' = s3_objects
                       /\ ddb_items' = ddb_items]_vars

\* C32: S3Cache and DynamoDBCache are interchangeable: given the same save, get
\* and delete calls and no store failure, both give the same outcome kind at each
\* call, also for the delete of an id that was never saved
C32_SameOutcome ==
    probe.fn = "backends" => probe.last.s3 = probe.last.dynamodb

\* C33: a GET request for /cache/stats is served by get_cache_stats, not by the
\* search-id lookup registered for /cache/{search_id}
C33_StatsRoute ==
    (/\ probe.fn = "route"
     /\ probe.served # None
     /\ probe.method = "GET"
     /\ probe.path = <<"cache", "stats">>)
        => Get(probe.served).endpoint = "get_cache_stats"

\* C34 as stated: every searchType=keyword response has len(results) <= pageSize
C34_AtMostPageSize ==
    (pc = "done" /\ request.searchType = "keyword" /\ search_response # None)
        => Len(Response.results) <= request.pageSize

\* C34: for every searchType=keyword response the keyword query returns at most
\* pageSize hits, and len(results) <= pageSize when the supplementation did not
\* run; when it ran on c keyword results the supplementary query asks for
\* 10000 - c hits, so that len(results) <= 10000
C34_PageSizeOrSupplement ==
    /\ [](pc = "done" /\ request.searchType = "keyword" /\ search_response # None =>
            /\ log.keyword_count # None => Get(log.keyword_count) <= request.pageSize
            /\ ~self.embedder => Len(Response.results) <= request.pageSize
            /\ Len(Response.results) <= SUPPLEMENT_LIMIT)
    /\ [](probe.fn = "supplement_query" /\ probe.ran /\ probe.ret # None =>
            Len(probe.results) + Get(probe.ret).size <= SUPPLEMENT_LIMIT)

\* a keyword response for pageSize 1 with three results: one keyword hit and two
\* supplementary ones
C34_Witness ==
    /\ pc = "done" /\ request.searchType = "keyword" /\ search_response # None
    /\ request.pageSize = 1
    /\ log.keyword_count = Some(1)
    /\ Len(Response.results) = 3
    /\ SourceCount(Response.results, "keyword") = 1

\* a searchType that is none of keyword, vector, hybrid
Unrecognized == request.searchType \notin {"keyword", "vector", "hybrid"}

\* C35: the response's searchType equals the request's searchType, and a request
\* whose searchType is none of keyword, vector, hybrid goes through the keyword
\* branch: no embedding of the query before the engine query, the keyword query,
\* the supplementation when there is an embedder, the rerank under the keyword
\* branch's condition, and the response echoes the unrecognized value
C35_EchoAndDefault ==
    /\ [](search_response # None => Response.searchType = request.searchType)
    /\ [](Unrecognized => /\ pc # "embed"
                          /\ log.hybrid_total = None)
    /\ [][Unrecognized /\ pc = "expand" /\ ~exc' => pc' = "engine"]_vars
    /\ [][Unrecognized /\ pc = "engine" /\ ~exc' =>
            /\ log'.keyword_count # None
            /\ Get(log'.keyword_count) <= request.pageSize
            /\ pc' = "supp_embed" <=> self.embedder
            /\ (pc' = "rerank" <=>
                  (~self.embedder /\ ENABLE_RERANK /\ self.reranker
                     /\ Get(log'.keyword_count) > 0))]_vars

\* a returned response to an unrecognized searchType that echoes it and holds
\* a keyword result and a supplementary one
C35_Witness ==
    /\ pc = "done" /\ ~exc /\ search_response # None
    /\ request.searchType = "other"
    /\ Response.searchType = "other"
    /\ SourceCount(Response.results, "keyword") >= 1
    /\ SourceCount(Response.results, "vector") >= 1

\* C36: the reranker is invoked only in the keyword and hybrid branches, only
\* when reranking is enabled, a reranker is present and the result list is not
\* empty; the vector branch never invokes it, and each result of a vector
\* response carries the score the engine gave its hit
C36_RerankOnlyWhen ==
    /\ [](pc = "rerank" => /\ ~VectorBranch
                           /\ ENABLE_RERANK
                           /\ self.reranker
                           /\ local.results # << >>)
    /\ [][VectorBranch /\ pc = "filter" /\ ~exc' =>
            LET hit == Head(local.hits)
                new == IF pc' = "filter" THEN local'.vector_results
                       ELSE Get(search_response').results
            IN  \/ new = local.vector_results
                \/ /\ Len(new) = Len(local.vector_results) + 1
                   /\ SubSeq(new, 1, Len(local.vector_results)) = local.vector_results
                   /\ new[Len(new)].id = hit.id
                   /\ new[Len(new)].score = hit.score]_vars
    /\ [][VectorBranch /\ pc = "save" =>
            Get(search_response').results = Get(search_response).results]_vars

\* the reranker is about to be called on a supplemented keyword result list
C36_Witness ==
    /\ pc = "rerank"
    /\ KeywordBranch
    /\ SourceCount(local.results, "keyword") >= 1
    /\ SourceCount(local.results, "vector") >= 1

\* how far an invocation is from its return: the steps that can still follow its
\* position, the hits of the current loop counted one step each
StepsLeft ==
    CASE pc = "start" -> 8 + 2 * MaxHits
      [] pc = "expand" -> 7 + 2 * MaxHits
      [] pc = "embed" -> 6 + 2 * MaxHits
      [] pc = "engine" -> 5 + 2 * MaxHits
      [] pc = "supp_embed" -> 4 + MaxHits
      [] pc = "supp_engine" -> 3 + MaxHits
      [] pc = "filter" -> 2 + Len(local.hits)
      [] pc = "rerank" -> 2
      [] pc = "save" -> 1
      [] OTHER -> 0

\* C37: every invocation of search eventually returns a response, for every
\* strategy, provided every collaborator call returns or raises and hit lists are
\* finite; every step brings the invocation closer to its return, none loops
C37_Terminates ==
    /\ <>(pc = "done" /\ outcome = "returned" /\ search_response # None)
    /\ [][StepsLeft' < StepsLeft]_vars

\* a returned keyword search whose loop over the supplementary hits ran twice
C37_Witness ==
    /\ pc = "done" /\ outcome = "returned" /\ ~exc
    /\ KeywordBranch
    /\ Len(log.verdicts) = 2

=============================================================================
